---- MODULE Spec2Model ----
(***************************************************************************)
(* Model of the Mudbrick in-place text / image editing engine              *)
(* (js/text-edit.js, latest revision, and its callers in js/app.js).       *)
(*                                                                         *)
(* Text is a sequence of one-character strings.  An HTML string is a       *)
(* sequence of tokens: a literal character, a character entity ("&amp;")   *)
(* or a tag ("<b>").  The DOM content of a line overlay is a sequence of   *)
(* top-level nodes, each a text node (tag "") or a <b>, <i> or <b><i>      *)
(* element holding at most one text node: the shapes that                  *)
(* buildInitialHtmlFromItems produces.                                     *)
(***************************************************************************)
EXTENDS Integers, Sequences, FiniteSets, TLC

(* ------------------------------ bounds --------------------------------- *)
MaxEdits == 1
MaxTyped == 2
MaxPending == 2
NumPages == 2
MaxReads == 1
MaxRuns == 3
MaxBands == 6
MaxPixels == 3
MaxOps == 5
MaxTransforms == 3

(* -------------------------- program constants -------------------------- *)
MAX_UNDO == 50

NBSP == "NBSP"
NoIdx == -1

(* ---------------------------- sequence helpers ------------------------- *)
RECURSIVE Flatten(_)
Flatten(ss) == IF ss = <<>> THEN <<>> ELSE Head(ss) \o Flatten(Tail(ss))

RECURSIVE TrimLeft(_)
TrimLeft(s) == IF s # <<>> /\ Head(s) = " " THEN TrimLeft(Tail(s)) ELSE s

RECURSIVE TrimRight(_)
TrimRight(s) ==
  IF s # <<>> /\ s[Len(s)] = " " THEN TrimRight(SubSeq(s, 1, Len(s) - 1)) ELSE s

(* String.prototype.trim on a token sequence *)
Trim(s) == TrimRight(TrimLeft(s))

(* ------------------------------ HTML ----------------------------------- *)
EscapeChar(c) ==
  CASE c = "&" -> "&amp;"
    [] c = "<" -> "&lt;"
    [] c = ">" -> "&gt;"
    [] c = "\"" -> "&quot;"
    [] OTHER -> c

escapeHtml(str) == [i \in 1..Len(str) |-> EscapeChar(str[i])]

(* The browser's serialisation of a text node (innerHTML getter): & < >    *)
(* and the no-break space are escaped, the double quote is not.            *)
SerializeChar(c) ==
  CASE c = "&" -> "&amp;"
    [] c = "<" -> "&lt;"
    [] c = ">" -> "&gt;"
    [] c = NBSP -> "&nbsp;"
    [] OTHER -> c

(* The browser's decoding of a character reference (innerHTML setter) *)
DecodeToken(t) ==
  CASE t = "&amp;" -> "&"
    [] t = "&lt;" -> "<"
    [] t = "&gt;" -> ">"
    [] t = "&quot;" -> "\""
    [] t = "&nbsp;" -> NBSP
    [] OTHER -> t

EmptySpanOpen == "<span style=\"\">"
EmptySpanClose == "</span>"

RECURSIVE DropEmptySpans(_)
DropEmptySpans(h) ==
  IF h = <<>> THEN <<>>
  ELSE IF Len(h) >= 2 /\ h[1] = EmptySpanOpen /\ h[2] = EmptySpanClose
       THEN DropEmptySpans(SubSeq(h, 3, Len(h)))
       ELSE <<Head(h)>> \o DropEmptySpans(Tail(h))

normalizeInlineHtml(html) ==
  Trim(DropEmptySpans([i \in 1..Len(html) |-> IF html[i] = NBSP THEN " " ELSE html[i]]))

OpenTag(tag) ==
  CASE tag = "b" -> <<"<b>">>
    [] tag = "i" -> <<"<i>">>
    [] tag = "bi" -> <<"<b>", "<i>">>
    [] OTHER -> <<>>

CloseTag(tag) ==
  CASE tag = "b" -> <<"</b>">>
    [] tag = "i" -> <<"</i>">>
    [] tag = "bi" -> <<"</i>", "</b>">>
    [] OTHER -> <<>>

TextNode(t) == [tag |-> "", text |-> t]

(* innerHTML getter *)
SerializeNode(n) ==
  OpenTag(n.tag) \o [i \in 1..Len(n.text) |-> SerializeChar(n.text[i])] \o CloseTag(n.tag)

InnerHTML(nodes) == Flatten([i \in 1..Len(nodes) |-> SerializeNode(nodes[i])])

(* textContent getter *)
TextContent(nodes) == Flatten([i \in 1..Len(nodes) |-> nodes[i].text])

(* textContent setter: one text node, none for the empty string *)
SetTextContent(t) == IF t = <<>> THEN <<>> ELSE <<TextNode(t)>>

(* innerHTML setter.  tag is the element being read ("" at top level,     *)
(* "bi/" after the inner </i> of <b><i>), txt the text read so far.        *)
RECURSIVE ParseNodes(_, _, _, _)
ParseNodes(toks, tag, txt, out) ==
  LET flush == IF tag = "" /\ txt # <<>> THEN Append(out, TextNode(txt)) ELSE out
  IN IF toks = <<>> THEN flush
     ELSE LET t == Head(toks)
              rest == Tail(toks)
          IN CASE t = "<b>" -> ParseNodes(rest, "b", <<>>, flush)
               [] t = "<i>" -> IF tag = "b" /\ txt = <<>>
                               THEN ParseNodes(rest, "bi", <<>>, out)
                               ELSE ParseNodes(rest, "i", <<>>, flush)
               [] t = "</i>" -> IF tag = "bi"
                                THEN ParseNodes(rest, "bi/", txt, out)
                                ELSE ParseNodes(rest, "", <<>>,
                                                Append(out, [tag |-> "i", text |-> txt]))
               [] t = "</b>" -> ParseNodes(rest, "", <<>>,
                                  Append(out, [tag |-> IF tag = "bi/" THEN "bi" ELSE "b",
                                               text |-> txt]))
               [] OTHER -> ParseNodes(rest, tag, Append(txt, DecodeToken(t)), out)

SetInnerHTML(html) == ParseNodes(html, "", <<>>, <<>>)

Max(a, b) == IF a >= b THEN a ELSE b

Min(a, b) == IF a <= b THEN a ELSE b

(* ------------------------------ fonts ---------------------------------- *)
(* A font name is the sequence of its lower-cased keywords.                *)
Includes(name, kw) == \E i \in 1..Len(name) : name[i] = kw

detectFontStyle(fontName) ==
  [bold |-> Includes(fontName, "bold") \/ Includes(fontName, "heavy")
              \/ Includes(fontName, "black"),
   italic |-> Includes(fontName, "italic") \/ Includes(fontName, "oblique")]

NoStyleInfo == [fontWeight |-> "", fontStyle |-> "", fontFamily |-> <<>>]

(* a resolution that lets the keywords of the name win over the hint *)
detectFontStyleNameFirst(fontName, styleInfo) ==
  LET fromName == detectFontStyle(fontName)
  IN IF fromName.bold \/ fromName.italic THEN fromName
     ELSE [bold |-> styleInfo.fontWeight \in {"bold", "700", "800", "900"},
           italic |-> styleInfo.fontStyle \in {"italic", "oblique"}]

detectFontStyleWithMeta(fontName, styleInfo) ==
  LET fromMeta ==
        [bold |-> styleInfo.fontWeight \in {"bold", "700", "800", "900"}
                    \/ Includes(styleInfo.fontFamily, "bold"),
         italic |-> styleInfo.fontStyle \in {"italic", "oblique"}
                    \/ Includes(styleInfo.fontFamily, "italic")
                    \/ Includes(styleInfo.fontFamily, "oblique")]
  IN IF fromMeta.bold \/ fromMeta.italic THEN fromMeta ELSE detectFontStyle(fontName)

mapToStandardFont(fontName) ==
  LET bold == Includes(fontName, "bold")
      italic == Includes(fontName, "italic")
      obl == Includes(fontName, "oblique") \/ italic
  IN IF Includes(fontName, "courier") \/ Includes(fontName, "mono")
     THEN (IF bold /\ obl THEN "CourierBoldOblique"
           ELSE IF bold THEN "CourierBold"
           ELSE IF obl THEN "CourierOblique" ELSE "Courier")
     ELSE IF Includes(fontName, "times") \/ Includes(fontName, "roman")
             \/ (Includes(fontName, "serif") /\ ~Includes(fontName, "sans"))
     THEN (IF bold /\ italic THEN "TimesRomanBoldItalic"
           ELSE IF bold THEN "TimesRomanBold"
           ELSE IF italic THEN "TimesRomanItalic" ELSE "TimesRoman")
     ELSE (IF bold /\ obl THEN "HelveticaBoldOblique"
           ELSE IF bold THEN "HelveticaBold"
           ELSE IF obl THEN "HelveticaOblique" ELSE "Helvetica")

mapToCSSFont(fontName) ==
  IF Includes(fontName, "courier") \/ Includes(fontName, "mono") THEN "monospace"
  ELSE IF Includes(fontName, "times") \/ Includes(fontName, "roman")
          \/ (Includes(fontName, "serif") /\ ~Includes(fontName, "sans")) THEN "serif"
  ELSE IF Includes(fontName, "arial") \/ Includes(fontName, "helvetica")
          \/ Includes(fontName, "sans") THEN "sans-serif"
  ELSE IF Includes(fontName, "georgia") THEN "Georgia, serif"
  ELSE IF Includes(fontName, "verdana") THEN "Verdana, sans-serif"
  ELSE IF Includes(fontName, "trebuchet") THEN "Trebuchet MS, sans-serif"
  ELSE IF Includes(fontName, "tahoma") THEN "Tahoma, sans-serif"
  ELSE IF Includes(fontName, "palatino") THEN "Palatino, serif"
  ELSE IF Includes(fontName, "garamond") THEN "Garamond, serif"
  ELSE "sans-serif"

(* --------------------------- rich-text runs ---------------------------- *)
(* collectTextRuns on one top-level node, appended to out *)
collectTextRuns(node, state, out) ==
  LET next == [bold |-> state.bold \/ node.tag \in {"b", "bi"},
               italic |-> state.italic \/ node.tag \in {"i", "bi"}]
  IN IF node.text = <<>> THEN out
     ELSE IF out # <<>> /\ out[Len(out)].bold = next.bold
               /\ out[Len(out)].italic = next.italic
          THEN [out EXCEPT ![Len(out)].text = @ \o node.text]
          ELSE Append(out, [text |-> node.text, bold |-> next.bold, italic |-> next.italic])

RECURSIVE CollectAll(_, _, _)
CollectAll(nodes, state, out) ==
  IF nodes = <<>> THEN out
  ELSE CollectAll(Tail(nodes), state, collectTextRuns(Head(nodes), state, out))

extractRunsFromDiv(div) ==
  LET base == [bold |-> div.bold = "true", italic |-> div.italic = "true"]
  IN SelectSeq(CollectAll(div.content, base, <<>>), LAMBDA r : Len(r.text) > 0)

buildInitialHtmlFromItems(items) ==
  Flatten([k \in 1..Len(items) |->
    LET style == detectFontStyleWithMeta(items[k].fontName, items[k].styleInfo)
        tag == IF style.bold /\ style.italic THEN "bi"
               ELSE IF style.bold THEN "b"
               ELSE IF style.italic THEN "i" ELSE ""
    IN OpenTag(tag) \o escapeHtml(items[k].str) \o CloseTag(tag)])

(* ------------------------- extracted page data ------------------------- *)
Arial == <<"arial", "mt">>
ArialBold == <<"arial", "mt", "-", "bold">>
Times == <<"times", "new", "roman">>

Item(str, fontName, pdfX) ==
  [str |-> str, fontName |-> fontName, styleInfo |-> NoStyleInfo, pdfX |-> pdfX]

(* the record groupIntoLines returns for one line *)
MakeLine(items, pdfY, pdfLineWidth, textColor) ==
  [text |-> Flatten([k \in 1..Len(items) |-> items[k].str]),
   initialHtml |-> buildInitialHtmlFromItems(items),
   fontName |-> items[1].fontName,
   pdfX |-> items[1].pdfX,
   pdfY |-> pdfY,
   pdfFontSize |-> 10,
   pdfLineWidth |-> pdfLineWidth,
   left |-> items[1].pdfX,
   top |-> 792 - pdfY - 10,
   width |-> pdfLineWidth,
   height |-> 12,
   textColor |-> textColor]

(* paragraphs that extraction and grouping yield for each page *)
PageParagraphs(page) ==
  IF page = 1
  THEN << << MakeLine(<<Item(<<"a", "b">>, Arial, 10)>>, 700, 12, "#112233"),
             MakeLine(<<Item(<<"a", "\"">>, Arial, 10)>>, 690, 9, "#112233") >>,
          << MakeLine(<<Item(<<"a">>, ArialBold, 10), Item(<<"b">>, Arial, 16)>>,
                      650, 12, "#112233") >> >>
  ELSE << << MakeLine(<<Item(<<"a", NBSP, "b">>, Times, 20)>>, 500, 14, "#445566") >> >>

PageBackground == "#f0f0f0"

(* the line enterTextEditMode builds from a recognised line of the page's *)
(* OCR results, at viewport scale 1; the height is that of its box         *)
OcrLine(text, x0, y0, x1, y1) ==
  [text |-> text,
   initialHtml |-> <<>>,
   fontName |-> <<"helvetica">>,
   pdfX |-> x0,
   pdfY |-> y0,
   pdfFontSize |-> ((y1 - y0) * 85) \div 100,
   pdfLineWidth |-> 0,
   left |-> x0,
   top |-> y0,
   width |-> x1 - x0,
   height |-> y1 - y0,
   textColor |-> "#112233"]

(* groupIntoParagraphs of the OCR lines stored for a page *)
OcrParagraphs(page) == << << OcrLine(<<"o", "k">>, 50, 100, 90, 120) >> >>

(* --------------------------- colour sampling --------------------------- *)
(* A pixel is [r, g, b, a]; a colour string is "#" and six hex digits, as  *)
(* a sequence of characters.  Luminance is kept in thousandths.            *)

(* the histogram loop of sampleTextColor and its result: the colour,      *)
(* quantised to multiples of 4, that most of the opaque pixels at or below *)
(* the threshold have (the first of them in the data on a tie), black when *)
(* there is none                                                           *)
DominantColor(data, skipThreshold) ==
  LET digits == <<"0", "1", "2", "3", "4", "5", "6", "7", "8", "9",
                  "a", "b", "c", "d", "e", "f">>
      toHex(c) == <<digits[(c \div 16) + 1], digits[(c % 16) + 1]>>
      Key(p) == <<(p.r \div 4) * 4, (p.g \div 4) * 4, (p.b \div 4) * 4>>
      counted == SelectSeq(data, LAMBDA p :
                   /\ ~(p.a < 128)
                   /\ ~(299 * p.r + 587 * p.g + 114 * p.b > skipThreshold))
      Count(key) == Cardinality({i \in 1..Len(counted) : Key(counted[i]) = key})
      first == {i \in 1..Len(counted) : \A j \in 1..(i - 1) :
                  Key(counted[j]) # Key(counted[i])}
      best == CHOOSE i \in first :
                /\ \A j \in first : Count(Key(counted[j])) <= Count(Key(counted[i]))
                /\ \A j \in first : j < i =>
                     Count(Key(counted[j])) < Count(Key(counted[i]))
  IN IF counted = <<>> THEN <<"#", "0", "0", "0", "0", "0", "0">>
     ELSE LET k == Key(counted[best])
          IN <<"#">> \o toHex(k[1]) \o toHex(k[2]) \o toHex(k[3])

(* a sampler with the threshold of a near-white background, whatever the   *)
(* background is                                                           *)
SampleBelowFixedThreshold(data, bgHex) == DominantColor(data, 230000 - 40000)

(* sampleTextColor on the pixels getImageData returned for the region: the *)
(* threshold is 40 below the luminance of the background colour            *)
sampleTextColorOfData(data, bgHex) ==
  LET digits == <<"0", "1", "2", "3", "4", "5", "6", "7", "8", "9",
                  "a", "b", "c", "d", "e", "f">>
      Digit(c) == (CHOOSE i \in 1..16 : digits[i] = c) - 1
      parseInt(hi, lo) == 16 * Digit(hi) + Digit(lo)
      bgLum == IF Len(bgHex) = 7
               THEN 299 * parseInt(bgHex[2], bgHex[3])
                      + 587 * parseInt(bgHex[4], bgHex[5])
                      + 114 * parseInt(bgHex[6], bgHex[7])
               ELSE 230000
  IN DominantColor(data, bgLum - 40000)

(* --------------------------- line reconstruction ----------------------- *)
(* Screen lengths are in tenths of a pixel.  A mapped item is              *)
(* [str, fontName, left, top, width, fontSize], what groupIntoLines has    *)
(* after it applied the viewport transform to an extracted item.           *)

(* a dedup that keeps the first item at each position *)
DedupeKeepingFirst(mapped) ==
  LET nonBlank == SelectSeq(mapped, LAMBDA item : Trim(item.str) # <<>>)
      Key(item) == <<(item.left + 5) \div 10, (item.top + 5) \div 10>>
      first == SelectSeq([i \in 1..Len(nonBlank) |-> i],
                         LAMBDA i : \A j \in 1..(i - 1) :
                                      Key(nonBlank[j]) # Key(nonBlank[i]))
  IN [k \in 1..Len(first) |-> nonBlank[first[k]]]

(* the dedup loop of groupIntoLines: blank items are skipped, an item at   *)
(* a position (rounded to 1px) seen before takes that item's slot          *)
Dedupe(mapped) ==
  LET Key(item) == <<(item.left + 5) \div 10, (item.top + 5) \div 10>>
      RECURSIVE Loop(_, _)
      Loop(rest, deduped) ==
        IF rest = <<>> THEN deduped
        ELSE LET item == Head(rest)
                 seen == {i \in 1..Len(deduped) : Key(deduped[i]) = Key(item)}
             IN IF Trim(item.str) = <<>> THEN Loop(Tail(rest), deduped)
                ELSE IF seen # {}
                THEN Loop(Tail(rest),
                          [deduped EXCEPT ![CHOOSE i \in seen : TRUE] = item])
                ELSE Loop(Tail(rest), Append(deduped, item))
  IN Loop(mapped, <<>>)

(* detectColumnSplit: <<>> for null, else <<x>> with the split X in units  *)
(* of 1/2000 px, which is (bestStart + bestEnd) * pageWidth                *)
detectColumnSplit(mapped, pageWidth) ==
  LET NUM_BUCKETS == 100
      items == SelectSeq(mapped, LAMBDA item : Trim(item.str) # <<>>)
      yBand(item) == ((item.top + 25) \div 50) * 5
      start(item) == Max(0, (item.left * NUM_BUCKETS) \div pageWidth)
      end(item) == Min(NUM_BUCKETS - 1,
                       ((item.left + item.width) * NUM_BUCKETS) \div pageWidth)
      histogram == [b \in 0..(NUM_BUCKETS - 1) |->
                      Cardinality({yBand(items[i]) : i \in
                         {j \in 1..Len(items) :
                            start(items[j]) <= b /\ b <= end(items[j])}})]
      minB == 30
      maxB == 70
      maxCount == CHOOSE m \in {histogram[b] : b \in DOMAIN histogram} :
                    \A b \in DOMAIN histogram : histogram[b] <= m
      emptyThreshold == Max(2, (maxCount * 15) \div 100)
      RECURSIVE Scan(_, _, _)
      Scan(b, best, gapStart) ==
        IF b > maxB
        THEN IF gapStart # -1 /\ maxB - gapStart > best.width
             THEN [width |-> maxB - gapStart, start |-> gapStart, end |-> maxB]
             ELSE best
        ELSE IF histogram[b] <= emptyThreshold
        THEN Scan(b + 1, best, IF gapStart = -1 THEN b ELSE gapStart)
        ELSE IF gapStart # -1 /\ b - gapStart > best.width
        THEN Scan(b + 1, [width |-> b - gapStart, start |-> gapStart, end |-> b], -1)
        ELSE Scan(b + 1, best, -1)
      best == Scan(minB, [width |-> 0, start |-> -1, end |-> -1], -1)
      RECURSIVE Sum(_, _)
      Sum(from, to) == IF from > to THEN 0 ELSE histogram[from] + Sum(from + 1, to)
  IN IF maxCount = 0 THEN <<>>
     ELSE IF best.width < 3 THEN <<>>
     ELSE IF Sum(0, best.start - 1) < 5 \/ Sum(best.end, NUM_BUCKETS - 1) < 5 THEN <<>>
     ELSE <<(best.start + best.end) * pageWidth>>

(* groupIntoLines from the dedup loop on: columns, lines within each       *)
(* column, reading order; each line with the fields paragraph grouping     *)
(* and the overlays read                                                   *)
groupIntoLines(mapped, pageWidth) ==
  LET deduped == Dedupe(mapped)
      splitX == detectColumnSplit(deduped, pageWidth)
      Before(a, b) == a.top < b.top \/ (a.top = b.top /\ a.left < b.left)
      Sorted(seq) ==
        LET rank(i) == 1 + Cardinality({j \in 1..Len(seq) :
                            \/ Before(seq[j], seq[i])
                            \/ (~Before(seq[i], seq[j]) /\ j < i)})
        IN [k \in 1..Len(seq) |-> seq[CHOOSE i \in 1..Len(seq) : rank(i) = k]]
      InLeft(item) == (2 * item.left + item.width) * 100 < splitX[1]
      columns == IF splitX = <<>> THEN <<deduped>>
                 ELSE SelectSeq(<<SelectSeq(deduped, InLeft),
                                  SelectSeq(deduped, LAMBDA item : ~InLeft(item))>>,
                                LAMBDA c : Len(c) > 0)
      Abs(x) == IF x < 0 THEN -x ELSE x
      RECURSIVE Group(_, _)
      Group(rest, lines) ==
        IF rest = <<>> THEN lines
        ELSE LET item == Head(rest)
                 fresh == Append(lines, [top |-> item.top, left |-> item.left,
                                         items |-> <<item>>])
             IN IF lines = <<>> \/ Abs(item.top - lines[Len(lines)].top) > 30
                THEN Group(Tail(rest), fresh)
                ELSE LET cur == lines[Len(lines)]
                         lastItem == cur.items[Len(cur.items)]
                         gap == item.left - (lastItem.left + lastItem.width)
                     IN IF 2 * gap > lastItem.fontSize /\ gap > 50
                        THEN Group(Tail(rest), fresh)
                        ELSE Group(Tail(rest),
                                   [lines EXCEPT ![Len(lines)] =
                                      [cur EXCEPT !.items = Append(@, item),
                                                  !.left = Min(@, item.left)]])
      allLines == Sorted(Flatten([c \in 1..Len(columns) |->
                                    Group(Sorted(columns[c]), <<>>)]))
      MinOf(S) == CHOOSE m \in S : \A x \in S : m <= x
      MaxOf(S) == CHOOSE m \in S : \A x \in S : x <= m
  IN [k \in 1..Len(allLines) |->
        LET its == allLines[k].items
            idx == 1..Len(its)
        IN [text |-> Flatten([i \in idx |-> its[i].str]),
            left |-> MinOf({its[i].left : i \in idx}),
            top |-> allLines[k].top,
            width |-> MaxOf({its[i].left + its[i].width : i \in idx})
                        - MinOf({its[i].left : i \in idx}),
            height |-> MaxOf({its[i].fontSize : i \in idx}) + 20,
            fontSize |-> its[1].fontSize,
            fontName |-> its[1].fontName,
            pdfItems |-> its]]

(* a grouping that never joins two lines *)
OneLinePerParagraph(lines) == [i \in 1..Len(lines) |-> <<lines[i]>>]

(* groupIntoParagraphs: a line joins the paragraph of the line before it   *)
(* when it is close below it, left-aligned with it, of similar width and   *)
(* of the same font                                                        *)
groupIntoParagraphs(lines) ==
  LET Abs(x) == IF x < 0 THEN -x ELSE x
      Joins(prev, curr) ==
        /\ 2 * (curr.top - (prev.top + prev.height)) < 3 * prev.height
        /\ 2 * Abs(curr.left - prev.left) < 3 * prev.height
        /\ 2 * Abs(curr.width - prev.width) < Max(curr.width, prev.width)
        /\ curr.fontName = prev.fontName
        /\ Abs(curr.fontSize - prev.fontSize) < 20
      RECURSIVE Loop(_, _, _)
      Loop(i, paragraphs, currentPara) ==
        IF i > Len(lines) THEN Append(paragraphs, currentPara)
        ELSE IF Joins(lines[i - 1], lines[i])
        THEN Loop(i + 1, paragraphs, Append(currentPara, lines[i]))
        ELSE Loop(i + 1, Append(paragraphs, currentPara), <<lines[i]>>)
  IN IF Len(lines) <= 1 THEN [i \in 1..Len(lines) |-> <<lines[i]>>]
     ELSE Loop(2, <<>>, <<lines[1]>>)

(* ------------------------------- state --------------------------------- *)
VARIABLES
  active,           \* text-edit mode flag
  editContainer,    \* TRUE when the text layer container is attached
  pdfCanvas,        \* TRUE when _pdfCanvas is a canvas, FALSE when null
  paragraphData,    \* _paragraphData
  activeBlockIdx,   \* _activeBlockIdx
  zones,            \* click zones in the container, in DOM order
  editedBlocks,     \* _editedBlocks: block index -> saved lines
  canvasSnapshot,   \* _canvasSnapshot: <<>> or <<[blk, erasedLines]>>
  undoStack,
  redoStack,
  focusedLine,      \* _focusedLine: id of a line overlay, 0 when null
  toolbar,          \* "none", "text" or "image"
  divs,             \* line overlay elements by identity
  lineEls,          \* ids of the .text-edit-line elements in the container, DOM order
  erased,           \* raster: the line regions painted over
  imageActive,
  imageEntries,     \* image overlays in the container, in DOM order; the tracked
                    \* ones are the entries of imageOverlays
  pendingReads,     \* replacement files being read (readFileAsBytes)
  imageJob,         \* handleCommitImageEdits in flight
  sessionPage,      \* currentPageNum
  curPage,          \* State.currentPage of the host application
  pendingText,      \* enterTextEditMode calls suspended at their await
  pendingImage,     \* enterImageEditMode calls suspended at their await
  commitJob,        \* handleCommitTextEdits in flight
  trace,            \* effects of the last handler, in program order
  nEdits,           \* number of user edits counted so far
  callArgs,         \* a function of the module called on its own: <<>> or
                    \* <<its arguments>>
  callResult        \* <<>> or <<what the call returned>>

vars == <<active, editContainer, pdfCanvas, paragraphData, activeBlockIdx, zones,
          editedBlocks, canvasSnapshot, undoStack, redoStack, focusedLine, toolbar,
          divs, lineEls, erased, imageActive, imageEntries, pendingReads, imageJob,
          sessionPage, curPage, pendingText, pendingImage, commitJob, trace, nEdits,
          callArgs, callResult>>

(* the module-level state of text-edit.js with its DOM and raster *)
Cur ==
  [active |-> active, editContainer |-> editContainer, pdfCanvas |-> pdfCanvas,
   paragraphData |-> paragraphData, activeBlockIdx |-> activeBlockIdx,
   zones |-> zones, editedBlocks |-> editedBlocks,
   canvasSnapshot |-> canvasSnapshot, undoStack |-> undoStack,
   redoStack |-> redoStack, focusedLine |-> focusedLine, toolbar |-> toolbar,
   divs |-> divs, lineEls |-> lineEls, erased |-> erased, imageActive |-> imageActive,
   imageEntries |-> imageEntries, pendingReads |-> pendingReads, imageJob |-> imageJob,
   sessionPage |-> sessionPage, callArgs |-> callArgs, callResult |-> callResult,
   trace |-> <<>>]

(* overlay elements still referenced: in the container or by a snapshot *)
Referenced(s) ==
  {s.lineEls[i] : i \in 1..Len(s.lineEls)}
    \cup {s.undoStack[i].div : i \in 1..Len(s.undoStack)}
    \cup {s.redoStack[i].div : i \in 1..Len(s.redoStack)}

(* unreferenced elements are garbage *)
Collect(s) == [s EXCEPT !.divs = [d \in Referenced(s) |-> s.divs[d]]]

Become(s) ==
  LET c == Collect(s)
  IN /\ active' = c.active
     /\ editContainer' = c.editContainer
     /\ pdfCanvas' = c.pdfCanvas
     /\ paragraphData' = c.paragraphData
     /\ activeBlockIdx' = c.activeBlockIdx
     /\ zones' = c.zones
     /\ editedBlocks' = c.editedBlocks
     /\ canvasSnapshot' = c.canvasSnapshot
     /\ undoStack' = c.undoStack
     /\ redoStack' = c.redoStack
     /\ focusedLine' = c.focusedLine
     /\ toolbar' = c.toolbar
     /\ divs' = c.divs
     /\ lineEls' = c.lineEls
     /\ erased' = c.erased
     /\ imageActive' = c.imageActive
     /\ imageEntries' = c.imageEntries
     /\ pendingReads' = c.pendingReads
     /\ imageJob' = c.imageJob
     /\ sessionPage' = c.sessionPage
     /\ callArgs' = c.callArgs
     /\ callResult' = c.callResult
     /\ trace' = c.trace

Log(s, ev) == [s EXCEPT !.trace = Append(@, ev)]

(* querySelectorAll('.text-edit-line[data-block-idx=idx]'): ids in DOM order *)
BlockLines(s, idx) == SelectSeq(s.lineEls, LAMBDA d : s.divs[d].blockIdx = idx)

Attached(s, d) == \E i \in 1..Len(s.lineEls) : s.lineEls[i] = d

(* ------------------------------ markDirty ------------------------------ *)
Truthy(str) == str # ""

IsChanged(div) ==
  LET hasTextChange == TextContent(div.content) # div.original
      hasInlineFormatChange ==
        normalizeInlineHtml(InnerHTML(div.content)) # div.originalHtml
      hasFormatChange ==
        \/ Truthy(div.fontSizeOverride)
        \/ Truthy(div.colorOverride)
        \/ Truthy(div.fontFamilyOverride)
        \/ div.bold # div.initialBold
        \/ div.italic # div.initialItalic
        \/ hasInlineFormatChange
  IN hasTextChange \/ hasFormatChange

markDirty(div) == [div EXCEPT !.dirtyCls = IsChanged(div)]

(* ------------------------------ raster --------------------------------- *)
(* the rendered page canvas, one raster pixel per CSS pixel *)
Canvas == [width |-> 612, height |-> 792]

Region(blk, li) == <<blk, li>>

BlockRegions(s, blk) ==
  IF blk + 1 \in DOMAIN s.paragraphData
  THEN {Region(blk, li) : li \in 0..(Len(s.paragraphData[blk + 1]) - 1)}
  ELSE {}

sampleBackgroundColor(s, blk, li) ==
  IF ~s.pdfCanvas THEN "#ffffff" ELSE PageBackground

(* an erased region holds no pixel darker than the background *)
sampleTextColor(s, blk, li, line) ==
  IF ~s.pdfCanvas THEN "#000000"
  ELSE IF Region(blk, li) \in s.erased THEN "#000000"
  ELSE line.textColor

(* parseFloat of a font-size option *)
parseFloat(str) ==
  CASE str = "14" -> 14
    [] str = "18" -> 18
    [] OTHER -> 0

NumToStr(n) ==
  CASE n = 14 -> "14"
    [] n = 18 -> "18"
    [] OTHER -> ""

(* --------------------------- deactivateBlock --------------------------- *)
(* hasTextChange || hasFormatChange as deactivateBlock computes them *)
LineChanged(div) ==
  LET bold == div.bold = "true"
      italic == div.italic = "true"
      initialBold == div.initialBold = "true"
      initialItalic == div.initialItalic = "true"
      hasTextChange == TextContent(div.content) # div.original
      hasInlineFormatChange ==
        normalizeInlineHtml(InnerHTML(div.content)) # div.originalHtml
      hasFormatChange ==
        \/ Truthy(div.fontSizeOverride)
        \/ Truthy(div.colorOverride)
        \/ Truthy(div.fontFamilyOverride)
        \/ bold # initialBold
        \/ italic # initialItalic
        \/ hasInlineFormatChange
  IN hasTextChange \/ hasFormatChange

(* the record deactivateBlock saves for one line overlay *)
SavedLine(div) ==
  LET bold == div.bold = "true"
      italic == div.italic = "true"
      initialBold == div.initialBold = "true"
      initialItalic == div.initialItalic = "true"
  IN [text |-> TextContent(div.content),
      matchedColor |-> div.matchedColor,
      cssFont |-> div.cssFont,
      bold |-> IF bold # initialBold THEN bold ELSE div.baseBold = "true",
      italic |-> IF italic # initialItalic THEN italic ELSE div.baseItalic = "true",
      fontSizeOverride |-> IF Truthy(div.fontSizeOverride)
                           THEN parseFloat(div.fontSizeOverride) ELSE 0,
      colorOverride |-> div.colorOverride,
      fontFamilyOverride |-> div.fontFamilyOverride,
      fontNameOverride |-> div.fontNameOverride,
      dirty |-> LineChanged(div) \/ div.dirtyCls,
      html |-> InnerHTML(div.content),
      originalHtml |-> IF div.originalHtml # <<>> THEN div.originalHtml
                       ELSE normalizeInlineHtml(escapeHtml(div.original)),
      runs |-> extractRunsFromDiv(div),
      pdfX |-> div.pdfX,
      pdfY |-> div.pdfY,
      pdfFontSize |-> div.pdfFontSize,
      pdfLineWidth |-> div.pdfLineWidth,
      screenWidth |-> div.width,
      screenHeight |-> div.height,
      fontName |-> IF div.fontNameOverride # <<>> THEN div.fontNameOverride
                   ELSE div.fontName,
      bgColor |-> IF div.bgColor # "" THEN div.bgColor ELSE "#ffffff"]

(* indices in the container of the zone that _blockZones[idx] refers to *)
ZoneOf(s, idx) ==
  {i \in 1..Len(s.zones) : s.zones[i].tracked /\ s.zones[i].blockIdx = idx}

(* Map: a sequence of entries in insertion order *)
MapHas(m, k) == \E i \in 1..Len(m) : m[i].key = k

MapGet(m, k) == m[CHOOSE i \in 1..Len(m) : m[i].key = k].val

MapSet(m, k, v) ==
  IF MapHas(m, k)
  THEN [i \in 1..Len(m) |-> IF m[i].key = k THEN [key |-> k, val |-> v] ELSE m[i]]
  ELSE Append(m, [key |-> k, val |-> v])

(* a deactivation that drops the saved lines *)
PersistBlockDropped(s, idx, savedLines) == s

(* if (hasDirty) _editedBlocks.set(_activeBlockIdx, savedLines) *)
PersistBlock(s, idx, savedLines) ==
  IF \E k \in 1..Len(savedLines) : savedLines[k].dirty
  THEN Log([s EXCEPT !.editedBlocks = MapSet(@, idx, savedLines)],
           [ev |-> "persist", blk |-> idx])
  ELSE s

(* putImageData of the saved snapshot *)
RestoreCanvas(s) ==
  IF s.canvasSnapshot # <<>> /\ s.pdfCanvas
  THEN Log([s EXCEPT !.erased =
              (@ \ s.canvasSnapshot[1].regions) \cup s.canvasSnapshot[1].erasedLines],
           [ev |-> "restore", blk |-> s.canvasSnapshot[1].blk])
  ELSE s

deactivateBlock(s) ==
  IF s.activeBlockIdx < 0 \/ ~s.editContainer THEN s
  ELSE
    LET idx == s.activeBlockIdx
        blockLines == BlockLines(s, idx)
        savedLines == [k \in 1..Len(blockLines) |-> SavedLine(s.divs[blockLines[k]])]
        hasDirty == \E k \in 1..Len(savedLines) : savedLines[k].dirty
        s1 == [s EXCEPT
                !.zones = [i \in 1..Len(s.zones) |->
                            IF s.zones[i].tracked
                            THEN [s.zones[i] EXCEPT !.pointerEvents = ""]
                            ELSE s.zones[i]],
                !.lineEls = SelectSeq(s.lineEls, LAMBDA d : s.divs[d].blockIdx # idx)]
        s2 == IF blockLines # <<>>
              THEN Log(s1, [ev |-> "removeOverlays", blk |-> idx]) ELSE s1
        s3 == RestoreCanvas(PersistBlock(s2, idx, savedLines))
    IN [s3 EXCEPT
          !.canvasSnapshot = <<>>,
          !.zones = [i \in 1..Len(s3.zones) |->
                      IF i \in ZoneOf(s3, idx)
                      THEN [s3.zones[i] EXCEPT !.display = "",
                                               !.dirty = @ \/ hasDirty]
                      ELSE s3.zones[i]],
          !.activeBlockIdx = NoIdx,
          !.focusedLine = 0]

(* ---------------------------- activateBlock ---------------------------- *)
(* the n smallest identities not in use *)
RECURSIVE FreshIds(_, _)
FreshIds(used, n) ==
  IF n = 0 THEN <<>>
  ELSE LET d == CHOOSE x \in 1..(Cardinality(used) + 1) : x \notin used
       IN <<d>> \o FreshIds(used \cup {d}, n - 1)

(* savedEdits[li] when there is one *)
SavedAt(s, paraIdx, li) ==
  IF MapHas(s.editedBlocks, paraIdx)
       /\ li + 1 \in DOMAIN MapGet(s.editedBlocks, paraIdx)
  THEN <<MapGet(s.editedBlocks, paraIdx)[li + 1]>>
  ELSE <<>>

(* preSampled[li]: saved colours first, else sampled from the raster *)
PreSample(s, paraIdx, li) ==
  LET line == s.paragraphData[paraIdx + 1][li + 1]
      sv == SavedAt(s, paraIdx, li)
      bgColor == IF sv # <<>> /\ sv[1].bgColor # "" THEN sv[1].bgColor
                 ELSE sampleBackgroundColor(s, paraIdx, li)
      textColor == IF sv # <<>> /\ sv[1].matchedColor # "" THEN sv[1].matchedColor
                   ELSE sampleTextColor(s, paraIdx, li, line)
  IN [textColor |-> textColor, bgColor |-> bgColor]

(* the rectangle getImageData saves: the block's bounding box widened by  *)
(* six pixels and clamped to the canvas                                    *)
SnapRect(para) ==
  LET idx == 1..Len(para)
      paraLeft == CHOOSE v \in {para[k].left : k \in idx} :
                    \A k \in idx : v <= para[k].left
      paraTop == CHOOSE v \in {para[k].top : k \in idx} :
                   \A k \in idx : v <= para[k].top
      paraRight == CHOOSE v \in {para[k].left + para[k].width : k \in idx} :
                     \A k \in idx : v >= para[k].left + para[k].width
      paraBottom == CHOOSE v \in {para[k].top + para[k].height : k \in idx} :
                      \A k \in idx : v >= para[k].top + para[k].height
      snapX == Max(0, paraLeft - 6)
      snapY == Max(0, paraTop - 6)
  IN [x |-> snapX, y |-> snapY,
      w |-> Min(paraRight - paraLeft + 12, Canvas.width - snapX),
      h |-> Min(paraBottom - paraTop + 12, Canvas.height - snapY)]

(* the pixels fillRect paints for one line: the line's box widened by one *)
(* pixel, as far as it lies on the canvas                                  *)
EraseRect(line) ==
  LET x0 == Max(0, line.left - 1)
      y0 == Max(0, line.top - 1)
      x1 == Min(Canvas.width, line.left - 1 + line.width + 2)
      y1 == Min(Canvas.height, line.top - 1 + line.height + 2)
  IN [x |-> x0, y |-> y0, w |-> x1 - x0, h |-> y1 - y0]

Inside(r, q) ==
  /\ r.x >= q.x /\ r.y >= q.y
  /\ r.x + r.w <= q.x + q.w /\ r.y + r.h <= q.y + q.h

(* the line regions of the page whose painted pixels all lie in rect *)
RegionsInside(s, rect) ==
  {r \in UNION {BlockRegions(s, b) : b \in 0..(Len(s.paragraphData) - 1)} :
     Inside(EraseRect(s.paragraphData[r[1] + 1][r[2] + 1]), rect)}

(* getImageData of the block area, then fillRect over each line *)
SnapshotAndErase(s, paraIdx) ==
  LET rect == SnapRect(s.paragraphData[paraIdx + 1])
  IN IF ~s.pdfCanvas \/ rect.w <= 0 \/ rect.h <= 0
     THEN [s EXCEPT !.canvasSnapshot = <<>>]
     ELSE Log(Log([s EXCEPT
                     !.canvasSnapshot =
                        <<[blk |-> paraIdx,
                           regions |-> RegionsInside(s, rect),
                           erasedLines |-> s.erased \cap RegionsInside(s, rect)]>>,
                     !.erased = @ \cup BlockRegions(s, paraIdx)],
                  [ev |-> "snapshot", blk |-> paraIdx]),
              [ev |-> "erase", blk |-> paraIdx])

(* the line overlay activateBlock builds for line li of block paraIdx *)
MakeDiv(s, paraIdx, li, pre) ==
  LET line == s.paragraphData[paraIdx + 1][li + 1]
      sv == SavedAt(s, paraIdx, li)
      saved == sv # <<>>
      nameStyle == detectFontStyleWithMeta(line.fontName, NoStyleInfo)
      fontStyle == IF saved THEN [bold |-> sv[1].bold, italic |-> sv[1].italic]
                   ELSE nameStyle
      content == IF saved /\ sv[1].html # <<>> THEN SetInnerHTML(sv[1].html)
                 ELSE IF line.initialHtml # <<>> THEN SetInnerHTML(line.initialHtml)
                 ELSE SetTextContent(IF saved THEN sv[1].text ELSE line.text)
      div == [blockIdx |-> paraIdx,
              lineIdx |-> li,
              content |-> content,
              fontWeight |-> IF fontStyle.bold THEN "bold" ELSE "",
              fontStyle |-> IF fontStyle.italic THEN "italic" ELSE "",
              matchedColor |-> pre.textColor,
              bgColor |-> pre.bgColor,
              original |-> line.text,
              originalHtml |-> IF saved /\ sv[1].originalHtml # <<>>
                               THEN sv[1].originalHtml
                               ELSE normalizeInlineHtml(
                                      IF line.initialHtml # <<>> THEN line.initialHtml
                                      ELSE escapeHtml(line.text)),
              pdfX |-> line.pdfX,
              pdfY |-> line.pdfY,
              pdfFontSize |-> line.pdfFontSize,
              pdfLineWidth |-> line.pdfLineWidth,
              width |-> line.width,
              height |-> line.height,
              fontName |-> line.fontName,
              baseBold |-> IF fontStyle.bold THEN "true" ELSE "",
              baseItalic |-> IF fontStyle.italic THEN "true" ELSE "",
              cssFont |-> IF saved /\ sv[1].cssFont # "" THEN sv[1].cssFont
                          ELSE mapToCSSFont(line.fontName),
              fontSizeOverride |-> IF saved THEN NumToStr(sv[1].fontSizeOverride) ELSE "",
              colorOverride |-> IF saved THEN sv[1].colorOverride ELSE "",
              fontFamilyOverride |-> IF saved THEN sv[1].fontFamilyOverride ELSE "",
              fontNameOverride |-> IF saved THEN sv[1].fontNameOverride ELSE <<>>,
              bold |-> IF fontStyle.bold THEN "true" ELSE "",
              italic |-> IF fontStyle.italic THEN "true" ELSE "",
              initialBold |-> IF fontStyle.bold THEN "true" ELSE "",
              initialItalic |-> IF fontStyle.italic THEN "true" ELSE "",
              dirtyCls |-> FALSE,
              lastText |-> <<>>,
              snapshotTaken |-> FALSE]
  IN IF saved /\ sv[1].dirty THEN markDirty(div) ELSE div

(* an activation that leaves the current block as it is *)
DeactivateCurrentSkipped(s) == s

(* if (_activeBlockIdx >= 0) deactivateBlock() *)
DeactivateCurrent(s) == IF s.activeBlockIdx >= 0 THEN deactivateBlock(s) ELSE s

(* append one overlay per line of the block and focus the first *)
CreateOverlays(s, paraIdx, pre) ==
  LET para == s.paragraphData[paraIdx + 1]
      ids == FreshIds(DOMAIN s.divs, Len(para))
      newDivs == [d \in DOMAIN s.divs \cup {ids[k] : k \in 1..Len(ids)} |->
                    IF d \in DOMAIN s.divs THEN s.divs[d]
                    ELSE LET k == CHOOSE k \in 1..Len(ids) : ids[k] = d
                         IN MakeDiv(s, paraIdx, k - 1, pre[k])]
      s1 == Log([s EXCEPT !.divs = newDivs, !.lineEls = @ \o ids],
                [ev |-> "createOverlays", blk |-> paraIdx])
      first == BlockLines(s1, paraIdx)[1]
  IN [s1 EXCEPT !.focusedLine = first,
                !.divs[first].snapshotTaken = FALSE]

activateBlock(s, paraIdx) ==
  IF paraIdx = s.activeBlockIdx THEN s
  ELSE
    LET s0 == [DeactivateCurrent(s) EXCEPT !.activeBlockIdx = paraIdx]
    IN IF paraIdx + 1 \notin DOMAIN s0.paragraphData \/ ~s0.editContainer THEN s0
       ELSE
         LET para == s0.paragraphData[paraIdx + 1]
             s1 == [s0 EXCEPT !.zones = [i \in 1..Len(s0.zones) |->
                       IF ~s0.zones[i].tracked THEN s0.zones[i]
                       ELSE IF s0.zones[i].blockIdx = paraIdx
                       THEN [s0.zones[i] EXCEPT !.display = "none"]
                       ELSE [s0.zones[i] EXCEPT !.pointerEvents = "none"]]]
             pre == [k \in 1..Len(para) |-> PreSample(s1, paraIdx, k - 1)]
             s2 == Log(s1, [ev |-> "sample", blk |-> paraIdx, raster |-> s1.erased])
         IN CreateOverlays(SnapshotAndErase(s2, paraIdx), paraIdx, pre)

(* ------------------------------ undo / redo ---------------------------- *)
captureSnapshot(s, d) ==
  LET div == s.divs[d]
  IN [div |-> d,
      text |-> TextContent(div.content),
      html |-> InnerHTML(div.content),
      bold |-> div.bold,
      italic |-> div.italic,
      fontSizeOverride |-> div.fontSizeOverride,
      colorOverride |-> div.colorOverride,
      fontFamilyOverride |-> div.fontFamilyOverride,
      fontNameOverride |-> div.fontNameOverride,
      fontWeight |-> div.fontWeight,
      fontStyle |-> div.fontStyle]

restoreSnapshot(s, snap) ==
  [s EXCEPT !.divs[snap.div] =
     markDirty([@ EXCEPT !.content = SetInnerHTML(snap.html),
                         !.bold = snap.bold,
                         !.italic = snap.italic,
                         !.fontSizeOverride = snap.fontSizeOverride,
                         !.colorOverride = snap.colorOverride,
                         !.fontFamilyOverride = snap.fontFamilyOverride,
                         !.fontNameOverride = snap.fontNameOverride,
                         !.fontWeight = snap.fontWeight,
                         !.fontStyle = snap.fontStyle])]

(* a push without the shift *)
PushUnbounded(stack, snap) == Append(stack, snap)

(* undoStack.push(snap); if (undoStack.length > MAX_UNDO) undoStack.shift() *)
PushBounded(stack, snap) ==
  LET pushed == Append(stack, snap)
  IN IF Len(pushed) > MAX_UNDO THEN Tail(pushed) ELSE pushed

pushUndo(s, d) ==
  [s EXCEPT !.undoStack = PushBounded(@, captureSnapshot(s, d)),
            !.redoStack = <<>>]

(* an undo that keeps no snapshot for redo *)
UndoWithoutRedo(s) ==
  IF Len(s.undoStack) = 0 THEN s
  ELSE restoreSnapshot([s EXCEPT !.undoStack = SubSeq(@, 1, Len(@) - 1)],
                       s.undoStack[Len(s.undoStack)])

performUndo(s) ==
  IF Len(s.undoStack) = 0 THEN s
  ELSE LET snap == s.undoStack[Len(s.undoStack)]
           s1 == [s EXCEPT !.undoStack = SubSeq(@, 1, Len(@) - 1),
                           !.redoStack = Append(@, captureSnapshot(s, snap.div))]
       IN restoreSnapshot(s1, snap)

performRedo(s) ==
  IF Len(s.redoStack) = 0 THEN s
  ELSE LET snap == s.redoStack[Len(s.redoStack)]
           s1 == [s EXCEPT !.redoStack = SubSeq(@, 1, Len(@) - 1),
                           !.undoStack = Append(@, captureSnapshot(s, snap.div))]
       IN restoreSnapshot(s1, snap)

(* the 'input' listener of a line overlay, run after the content changed *)
OnInput(s, d) ==
  LET div == s.divs[d]
      snap == [captureSnapshot(s, d) EXCEPT
                 !.text = IF div.lastText # <<>> THEN div.lastText ELSE div.original]
      s1 == IF ~div.snapshotTaken
            THEN [s EXCEPT !.undoStack = PushBounded(@, snap),
                           !.redoStack = <<>>,
                           !.divs[d].snapshotTaken = TRUE]
            ELSE s
  IN [s1 EXCEPT !.divs[d] =
        markDirty([@ EXCEPT !.lastText = TextContent(s1.divs[d].content)])]

(* applyToFocused(fn): fn on the focused line, then markDirty *)
applyToFocused(s, d, change) ==
  [s EXCEPT !.divs[d] = markDirty(change)]

(* contents the user can give a line by typing or by styling a selection *)
EditContents ==
  { <<TextNode(<<"a", "b">>)>>,
    <<TextNode(<<"x">>)>>,
    <<>>,
    <<[tag |-> "b", text |-> <<"a">>], TextNode(<<"b">>)>> }

FontSizeOptions == {"14"}
ColorOptions == {"#ff0000"}
FontFamilyOptions == {[css |-> "serif", pdf |-> <<"times", "roman">>]}

(* -------------------------- enter / exit modes ------------------------- *)
(* a reset that leaves _editedBlocks alone *)
ResetKeepingStore(s) ==
  [s EXCEPT
     !.editContainer = FALSE,
     !.sessionPage = 0,
     !.focusedLine = 0,
     !.pdfCanvas = FALSE,
     !.paragraphData = <<>>,
     !.activeBlockIdx = NoIdx,
     !.canvasSnapshot = <<>>,
     !.undoStack = <<>>,
     !.redoStack = <<>>]

(* the assignments that end exitTextEditMode *)
ResetModuleState(s) ==
  [s EXCEPT
     !.editContainer = FALSE,
     !.sessionPage = 0,
     !.focusedLine = 0,
     !.pdfCanvas = FALSE,
     !.paragraphData = <<>>,
     !.activeBlockIdx = NoIdx,
     !.editedBlocks = <<>>,
     !.canvasSnapshot = <<>>,
     !.undoStack = <<>>,
     !.redoStack = <<>>]

exitTextEditMode(s) ==
  IF ~s.active THEN s
  ELSE
    LET s0 == [s EXCEPT !.active = FALSE]
        s1 == IF s0.activeBlockIdx >= 0 THEN deactivateBlock(s0) ELSE s0
        s2 == [s1 EXCEPT
                 !.lineEls = IF s1.editContainer THEN <<>> ELSE @,
                 !.zones = IF s1.editContainer THEN <<>> ELSE @,
                 !.toolbar = "none"]
        stored == Flatten([i \in 1..Len(s1.editedBlocks) |-> s1.editedBlocks[i].val])
    IN Log(ResetModuleState(s2),
           [ev |-> "exitText",
            dropped |-> Len(SelectSeq(stored, LAMBDA l : l.dirty))])

(* an exit that leaves imageOverlays as it is *)
ExitImageKeepingEntries(s) ==
  IF ~s.imageActive THEN s
  ELSE [s EXCEPT !.imageActive = FALSE, !.toolbar = "none"]

(* a detached overlay is out of the user's reach and of imageOverlays, so  *)
(* a file still being read for it has no effect any more                   *)
exitImageEditMode(s) ==
  IF ~s.imageActive THEN s
  ELSE Log([s EXCEPT !.imageActive = FALSE, !.toolbar = "none",
                     !.imageEntries = <<>>, !.pendingReads = <<>>],
           [ev |-> "exitImage",
            dropped |-> Cardinality({i \in 1..Len(s.imageEntries) :
                                       /\ s.imageEntries[i].tracked
                                       /\ s.imageEntries[i].action # "none"})])

(* enterTextEditMode after its awaits, with the extracted paragraphs *)
EnterTextResumed(s, page, paras) ==
  [s EXCEPT
     !.active = TRUE,
     !.editContainer = TRUE,
     !.sessionPage = page,
     !.undoStack = <<>>,
     !.redoStack = <<>>,
     !.activeBlockIdx = NoIdx,
     !.editedBlocks = <<>>,
     !.paragraphData = paras,
     !.zones = [i \in 1..Len(s.zones) |-> [s.zones[i] EXCEPT !.tracked = FALSE]]
                 \o [pi \in 1..Len(paras) |->
                       [blockIdx |-> pi - 1, display |-> "", pointerEvents |-> "",
                        dirty |-> FALSE, tracked |-> TRUE]],
     !.focusedLine = 0,
     !.toolbar = "text"]

(* an image placement painted by the page: position and size in PDF units *)
Placement(pdfX, pdfY, pdfW, pdfH) ==
  [pdfX |-> pdfX, pdfY |-> pdfY, pdfW |-> pdfW, pdfH |-> pdfH]

(* a walk that lets each transform replace the current matrix *)
WalkWithoutComposing(ops) ==
  LET RECURSIVE Walk(_, _, _)
      Walk(i, ctm, images) ==
        IF i > Len(ops) THEN images
        ELSE IF ops[i].fn = "transform" THEN Walk(i + 1, ops[i].args, images)
        ELSE IF ops[i].fn = "paintImageXObject" /\ ctm[1] >= 10 /\ ctm[4] >= 10
        THEN Walk(i + 1, ctm, Append(images, Placement(ctm[5], ctm[6], ctm[1], ctm[4])))
        ELSE Walk(i + 1, ctm, images)
  IN Walk(1, <<1, 0, 0, 1, 0, 0>>, <<>>)

(* extractImagePositions on the operator list of a page: the loop that     *)
(* tracks the current transformation matrix [a, b, c, d, e, f] and its     *)
(* stack, and takes each painted image for the unit square under it        *)
extractImagePositionsOfOps(ops) ==
  LET Abs(x) == IF x < 0 THEN -x ELSE x
      RECURSIVE Walk(_, _, _, _)
      Walk(i, ctm, ctmStack, images) ==
        IF i > Len(ops) THEN images
        ELSE LET fn == ops[i].fn
                 m == ops[i].args
             IN CASE fn = "save" -> Walk(i + 1, ctm, Append(ctmStack, ctm), images)
                  [] fn = "restore" ->
                       IF Len(ctmStack) > 0
                       THEN Walk(i + 1, ctmStack[Len(ctmStack)],
                                 SubSeq(ctmStack, 1, Len(ctmStack) - 1), images)
                       ELSE Walk(i + 1, ctm, ctmStack, images)
                  [] fn = "transform" ->
                       Walk(i + 1,
                            <<ctm[1] * m[1] + ctm[3] * m[2],
                              ctm[2] * m[1] + ctm[4] * m[2],
                              ctm[1] * m[3] + ctm[3] * m[4],
                              ctm[2] * m[3] + ctm[4] * m[4],
                              ctm[1] * m[5] + ctm[3] * m[6] + ctm[5],
                              ctm[2] * m[5] + ctm[4] * m[6] + ctm[6]>>,
                            ctmStack, images)
                  [] fn = "paintImageXObject" ->
                       LET pdfW == IF Abs(ctm[1]) # 0 THEN Abs(ctm[1]) ELSE Abs(ctm[3])
                           pdfH == IF Abs(ctm[4]) # 0 THEN Abs(ctm[4]) ELSE Abs(ctm[2])
                       IN IF pdfW < 10 \/ pdfH < 10
                          THEN Walk(i + 1, ctm, ctmStack, images)
                          ELSE Walk(i + 1, ctm, ctmStack,
                                    Append(images, Placement(ctm[5], ctm[6], pdfW, pdfH)))
                  [] OTHER -> Walk(i + 1, ctm, ctmStack, images)
  IN Walk(1, <<1, 0, 0, 1, 0, 0>>, <<>>, <<>>)

(* the paintImageXObject operations of each page, with the CTM applied *)
PagePlacements(page) ==
  IF page = 1
  THEN <<Placement(100, 500, 200, 100), Placement(300, 500, 5, 5),
         Placement(100, 300, 50, 60), Placement(400, 300, 40, 40)>>
  ELSE <<Placement(0, 0, 8, 8)>>

(* tiny images (patterns, masks) are skipped *)
extractImagePositions(page) ==
  SelectSeq(PagePlacements(page), LAMBDA p : ~(p.pdfW < 10 \/ p.pdfH < 10))

(* enterImageEditMode after its awaits, with the extracted placements *)
EnterImageResumed(s, page, images) ==
  [s EXCEPT
     !.imageActive = TRUE,
     !.sessionPage = page,
     !.imageEntries = [i \in 1..Len(s.imageEntries) |->
                         [s.imageEntries[i] EXCEPT !.tracked = FALSE]]
                      \o [k \in 1..Len(images) |->
                            [pdfX |-> images[k].pdfX, pdfY |-> images[k].pdfY,
                             pdfW |-> images[k].pdfW, pdfH |-> images[k].pdfH,
                             action |-> "none", replaceSrc |-> <<>>,
                             tracked |-> TRUE]],
     !.toolbar = "image"]

(* the files the user may pick: what the bytes are, and the declared type *)
Files ==
  {[bytes |-> "png", type |-> "image/png"],
   [bytes |-> "jpg", type |-> "image/png"],
   [bytes |-> "gif", type |-> "image/gif"]}

(* a Delete listener that keeps the replacement data *)
DeleteKeepingSource(e) ==
  IF e.action = "delete" THEN [e EXCEPT !.action = "none"]
  ELSE [e EXCEPT !.action = "delete"]

(* the click listener of a region's Delete button, acting on its entry *)
DeleteClicked(e) ==
  IF e.action = "delete" THEN [e EXCEPT !.action = "none"]
  ELSE [e EXCEPT !.action = "delete", !.replaceSrc = <<>>]

(* input.onchange of a region's Replace button, once the file is read *)
FileRead(e, file) ==
  [e EXCEPT !.action = "replace",
            !.replaceSrc = <<[bytes |-> file.bytes, type |-> file.type]>>]

(* doc.embedPng succeeds on PNG data and doc.embedJpg on JPEG data; the    *)
(* first attempt goes by the declared type, the second is embedJpg         *)
Embeds(src) ==
  \/ IF src.type = "image/png" THEN src.bytes = "png" ELSE src.bytes = "jpg"
  \/ src.bytes = "jpg"

(* the cover rectangle over a region's original placement *)
ImageCover(e) ==
  [op |-> "rect", x |-> e.pdfX, y |-> e.pdfY, width |-> e.pdfW, height |-> e.pdfH,
   color |-> "#ffffff"]

(* a loop that gives up a region whose image does not embed, cover and all *)
ImageDrawsAllOrNothing(e) ==
  IF e.action = "delete" THEN <<ImageCover(e)>>
  ELSE IF e.action = "replace" /\ e.replaceSrc # <<>> /\ Embeds(e.replaceSrc[1])
  THEN <<ImageCover(e),
         [op |-> "image", x |-> e.pdfX, y |-> e.pdfY, width |-> e.pdfW,
          height |-> e.pdfH, bytes |-> e.replaceSrc[1].bytes]>>
  ELSE <<>>

(* a loop that draws a replacement over the original without covering it *)
ImageDrawsUncovered(e) ==
  IF e.action = "delete" THEN <<ImageCover(e)>>
  ELSE IF e.action = "replace" /\ e.replaceSrc # <<>> /\ Embeds(e.replaceSrc[1])
  THEN <<[op |-> "image", x |-> e.pdfX, y |-> e.pdfY, width |-> e.pdfW,
          height |-> e.pdfH, bytes |-> e.replaceSrc[1].bytes]>>
  ELSE <<>>

(* the draw calls commitImageEdits makes for one entry of changes *)
ImageDraws(e) ==
  IF e.action = "delete" THEN <<ImageCover(e)>>
  ELSE IF e.action = "replace" /\ e.replaceSrc # <<>>
  THEN <<ImageCover(e)>> \o
       (IF Embeds(e.replaceSrc[1])
        THEN <<[op |-> "image", x |-> e.pdfX, y |-> e.pdfY, width |-> e.pdfW,
                height |-> e.pdfH, bytes |-> e.replaceSrc[1].bytes]>>
        ELSE <<>>)
  ELSE <<>>

(* imageOverlays.filter(o => o.action !== 'none'), as positions *)
ImageChanges(s) ==
  SelectSeq([i \in 1..Len(s.imageEntries) |-> i],
            LAMBDA i : s.imageEntries[i].tracked /\ s.imageEntries[i].action # "none")

(* ------------------------------- commit -------------------------------- *)
(* a change collected from a line overlay still in the container *)
ChangeOfDiv(div) ==
  LET sv == SavedLine(div)
  IN [newText |-> sv.text, pdfX |-> sv.pdfX, pdfY |-> sv.pdfY,
      pdfFontSize |-> sv.pdfFontSize, pdfLineWidth |-> sv.pdfLineWidth,
      fontName |-> sv.fontName, screenWidth |-> sv.screenWidth,
      screenHeight |-> sv.screenHeight, fontSizeOverride |-> sv.fontSizeOverride,
      colorOverride |-> IF div.colorOverride # "" THEN div.colorOverride
                        ELSE div.matchedColor,
      bold |-> sv.bold, italic |-> sv.italic, runs |-> sv.runs,
      bgColor |-> sv.bgColor]

(* a change collected from a saved line of the dirty store *)
ChangeOfSaved(saved) ==
  [newText |-> saved.text, pdfX |-> saved.pdfX, pdfY |-> saved.pdfY,
   pdfFontSize |-> saved.pdfFontSize, pdfLineWidth |-> saved.pdfLineWidth,
   fontName |-> saved.fontName, screenWidth |-> saved.screenWidth,
   screenHeight |-> saved.screenHeight, fontSizeOverride |-> saved.fontSizeOverride,
   colorOverride |-> IF saved.colorOverride # "" THEN saved.colorOverride
                     ELSE saved.matchedColor,
   bold |-> saved.bold, italic |-> saved.italic, runs |-> saved.runs,
   bgColor |-> saved.bgColor]

(* the changes commitTextEdits collects, after it deactivated the block *)
CollectChanges(s) ==
  LET changedEls == SelectSeq(s.lineEls, LAMBDA d : LineChanged(s.divs[d]))
      fromDom == [k \in 1..Len(changedEls) |-> ChangeOfDiv(s.divs[changedEls[k]])]
      allSaved == Flatten([i \in 1..Len(s.editedBlocks) |-> s.editedBlocks[i].val])
      dirtySaved == SelectSeq(allSaved, LAMBDA l : l.dirty)
  IN fromDom \o [k \in 1..Len(dirtySaved) |-> ChangeOfSaved(dirtySaved[k])]

StandardFonts ==
  {"Courier", "CourierBold", "CourierOblique", "CourierBoldOblique",
   "Helvetica", "HelveticaBold", "HelveticaOblique", "HelveticaBoldOblique",
   "TimesRoman", "TimesRomanBold", "TimesRomanItalic", "TimesRomanBoldItalic",
   "Symbol", "ZapfDingbats"}

getFont(fontName, bold, italic) ==
  LET variant == fontName \o (IF bold THEN <<"-", "bold">> ELSE <<>>)
                          \o (IF italic THEN <<"-", "italic">> ELSE <<>>)
      stdName == mapToStandardFont(variant)
  IN IF stdName \in StandardFonts THEN stdName ELSE "Helvetica"

(* advance of one glyph, in thousandths of the font size *)
GlyphAdvance(font) ==
  CASE font \in {"Courier", "CourierBold", "CourierOblique", "CourierBoldOblique"} -> 600
    [] font \in {"HelveticaBold", "HelveticaBoldOblique"} -> 611
    [] font \in {"TimesRoman", "TimesRomanItalic"} -> 500
    [] font \in {"TimesRomanBold", "TimesRomanBoldItalic"} -> 556
    [] OTHER -> 556

(* font.widthOfTextAtSize, in thousandths of a point *)
widthOfTextAtSize(font, text, size) == Len(text) * GlyphAdvance(font) * size

(* page.drawRectangle of one change; lengths in thousandths of a point *)
CoverRect(c) ==
  LET pdfLineHeight == Max(c.screenHeight, c.pdfFontSize)
  IN [op |-> "rect",
      x |-> (c.pdfX - 1) * 1000,
      y |-> c.pdfY * 1000 - Max(c.pdfFontSize * 180, pdfLineHeight * 180),
      width |-> ((IF c.pdfLineWidth > 0 THEN c.pdfLineWidth ELSE c.screenWidth) + 4) * 1000,
      height |-> Max(c.pdfFontSize * 1080, pdfLineHeight * 1120),
      color |-> c.bgColor,
      lineY |-> c.pdfY]

(* a run loop that never advances the cursor *)
RunDrawsNoAdvance(c, runs, cursorX) ==
  LET size == IF c.fontSizeOverride # 0 THEN c.fontSizeOverride ELSE c.pdfFontSize
      kept == SelectSeq(runs, LAMBDA r : r.text # <<>>)
  IN [k \in 1..Len(kept) |->
        [op |-> "text", text |-> kept[k].text, x |-> cursorX,
         y |-> c.pdfY * 1000, size |-> size,
         font |-> getFont(c.fontName, kept[k].bold, kept[k].italic),
         color |-> IF c.colorOverride # "" THEN c.colorOverride ELSE "#000000",
         lineY |-> c.pdfY]]

(* the drawText calls of the run loop, starting at cursorX *)
RECURSIVE RunDraws(_, _, _)
RunDraws(c, runs, cursorX) ==
  IF runs = <<>> THEN <<>>
  ELSE LET run == Head(runs)
           size == IF c.fontSizeOverride # 0 THEN c.fontSizeOverride ELSE c.pdfFontSize
           runFont == getFont(c.fontName, run.bold, run.italic)
       IN IF run.text = <<>> THEN RunDraws(c, Tail(runs), cursorX)
          ELSE <<[op |-> "text", text |-> run.text, x |-> cursorX,
                  y |-> c.pdfY * 1000, size |-> size, font |-> runFont,
                  color |-> IF c.colorOverride # "" THEN c.colorOverride ELSE "#000000",
                  lineY |-> c.pdfY]>>
               \o RunDraws(c, Tail(runs),
                           cursorX + widthOfTextAtSize(runFont, run.text, size))

(* the draw calls commitTextEdits makes for one change *)
DrawChange(c) ==
  LET size == IF c.fontSizeOverride # 0 THEN c.fontSizeOverride ELSE c.pdfFontSize
  IN <<CoverRect(c)>> \o
     (IF Len(c.runs) > 0 THEN RunDraws(c, c.runs, c.pdfX * 1000)
      ELSE <<[op |-> "text", text |-> c.newText, x |-> c.pdfX * 1000,
              y |-> c.pdfY * 1000, size |-> size,
              font |-> getFont(c.fontName, c.bold, c.italic),
              color |-> IF c.colorOverride # "" THEN c.colorOverride ELSE "#000000",
              lineY |-> c.pdfY]>>)

(* the draw calls of the whole loop, grouped by change, in call order *)
DrawAll(changes) == [k \in 1..Len(changes) |-> DrawChange(changes[k])]

(* the fonts getFont embeds for one change: the line's, then the runs' *)
FontsOf(c) ==
  {getFont(c.fontName, c.bold, c.italic)}
    \cup {getFont(c.fontName, c.runs[k].bold, c.runs[k].italic) :
            k \in {k \in 1..Len(c.runs) : c.runs[k].text # <<>>}}

(* the draw calls made for a change before doc.embedFont throws for bad *)
DrawsBeforeThrow(c, bad) ==
  IF getFont(c.fontName, c.bold, c.italic) = bad THEN <<>>
  ELSE LET all == DrawChange(c)
           first == CHOOSE k \in 1..Len(all) :
                      /\ all[k].op = "text" /\ all[k].font = bad
                      /\ \A j \in 1..(k - 1) : ~(all[j].op = "text" /\ all[j].font = bad)
       IN SubSeq(all, 1, first - 1)

(* the loop over the changes when embedding the font bad throws ("" when   *)
(* every font embeds): getFont has no handler, so the exception ends the   *)
(* loop and rejects commitTextEdits                                        *)
DrawLoop(changes, bad) ==
  LET throwing == {k \in 1..Len(changes) : bad \in FontsOf(changes[k])}
  IN IF throwing = {} THEN [draws |-> DrawAll(changes), thrown |-> FALSE]
     ELSE LET f == CHOOSE k \in throwing : \A j \in throwing : k <= j
          IN [draws |-> [k \in 1..f |-> IF k < f THEN DrawChange(changes[k])
                                        ELSE DrawsBeforeThrow(changes[k], bad)],
              thrown |-> TRUE]

(* hasTextEditChanges: a line overlay of class text-edit-dirty is in the   *)
(* container                                                               *)
hasTextEditChanges(s) ==
  IF ~s.editContainer THEN FALSE
  ELSE \E k \in 1..Len(s.lineEls) : s.divs[s.lineEls[k]].dirtyCls

(* ------------------------------- actions ------------------------------- *)
(* the module state and the host's state when the page has loaded *)
ModuleLoaded ==
  /\ active = FALSE
  /\ editContainer = FALSE
  /\ pdfCanvas = FALSE
  /\ paragraphData = <<>>
  /\ activeBlockIdx = NoIdx
  /\ zones = <<>>
  /\ editedBlocks = <<>>
  /\ canvasSnapshot = <<>>
  /\ undoStack = <<>>
  /\ redoStack = <<>>
  /\ focusedLine = 0
  /\ toolbar = "none"
  /\ divs = <<>>
  /\ lineEls = <<>>
  /\ erased = {}
  /\ imageActive = FALSE
  /\ imageEntries = <<>>
  /\ pendingReads = <<>>
  /\ imageJob = <<>>
  /\ sessionPage = 0
  /\ curPage = 1
  /\ pendingText = [p \in 1..NumPages |-> 0]
  /\ pendingImage = [p \in 1..NumPages |-> 0]
  /\ commitJob = <<>>
  /\ trace = <<>>
  /\ nEdits = 0

Init ==
  /\ ModuleLoaded
  /\ callArgs = <<>>
  /\ callResult = <<>>

Pages == 1..NumPages

RECURSIVE SumOver(_, _)
SumOver(f, S) ==
  IF S = {} THEN 0
  ELSE LET x == CHOOSE x \in S : TRUE IN f[x] + SumOver(f, S \ {x})

NumPending == SumOver(pendingText, Pages) + SumOver(pendingImage, Pages)

(* the loading overlay is up while a commit is in flight *)
UserCanAct == commitJob = <<>> /\ imageJob = <<>>

(* handleEditText: the Edit Text button; canvases are the values the host *)
(* passes for pdfCanvas                                                    *)
HandleEditText(canvases, maxPending) ==
  /\ UserCanAct
  /\ IF active
     THEN /\ Become(exitTextEditMode(Cur))
          /\ UNCHANGED pendingText
     ELSE /\ NumPending < maxPending
          /\ \E canvas \in canvases : Become([Cur EXCEPT !.pdfCanvas = canvas])
          /\ pendingText' = [pendingText EXCEPT ![curPage] = @ + 1]
  /\ UNCHANGED <<curPage, pendingImage, commitJob, nEdits>>

(* the outcomes of page.getTextContent: text items, no item, an exception *)
Extractions == {"items", "empty", "throws"}

(* a page with a text layer or without one, and no OCR results stored *)
TextLayer == {"items", "empty"}

(* a fallback that takes a failed extraction for the page's text *)
ParagraphsDespiteFailure(page, extraction, ocr) == PageParagraphs(page)

(* the paragraphs enterTextEditMode works with: an exception of            *)
(* getTextContent counts as no item, and without items the lines of the    *)
(* stored OCR results are taken                                            *)
ExtractedParagraphs(page, extraction, ocr) ==
  IF extraction = "items" THEN PageParagraphs(page)
  ELSE IF ocr THEN OcrParagraphs(page)
  ELSE <<>>

(* enterTextEditMode resumes after extraction; ocrs tells whether OCR      *)
(* results with lines are stored for the page                              *)
EnterTextResume(page, extractions, ocrs) ==
  /\ pendingText[page] > 0
  /\ pendingText' = [pendingText EXCEPT ![page] = @ - 1]
  /\ \E extraction \in extractions, ocr \in ocrs :
       LET paras == ExtractedParagraphs(page, extraction, ocr)
           ev == [ev |-> "enterText", threw |-> extraction = "throws", ocr |-> ocr,
                  result |-> paras # <<>>]
       IN IF paras = <<>> THEN Become(Log(Cur, ev))
          ELSE Become(Log(EnterTextResumed(Cur, page, paras), ev))
  /\ UNCHANGED <<curPage, pendingImage, commitJob, nEdits>>

(* handleEditImage: the Edit Image button *)
HandleEditImage(maxPending) ==
  /\ UserCanAct
  /\ IF imageActive
     THEN /\ Become(exitImageEditMode(Cur))
          /\ UNCHANGED pendingImage
     ELSE /\ NumPending < maxPending
          /\ Become(Cur)
          /\ pendingImage' = [pendingImage EXCEPT ![curPage] = @ + 1]
  /\ UNCHANGED <<curPage, pendingText, commitJob, nEdits>>

(* enterImageEditMode resumes after extraction *)
EnterImageResume(page) ==
  /\ pendingImage[page] > 0
  /\ pendingImage' = [pendingImage EXCEPT ![page] = @ - 1]
  /\ \E threw \in BOOLEAN :
       LET images == extractImagePositions(page)
       IN IF threw
          THEN Become(Log(Cur, [ev |-> "enterImage", threw |-> TRUE,
                                result |-> "rejected"]))
          ELSE IF images = <<>>
          THEN Become(Log(Cur, [ev |-> "enterImage", threw |-> FALSE,
                                result |-> "false"]))
          ELSE Become(Log(EnterImageResumed(Cur, page, images),
                          [ev |-> "enterImage", threw |-> FALSE, result |-> "true"]))
  /\ UNCHANGED <<curPage, pendingText, commitJob, nEdits>>

(* an overlay is reached by a click unless a later overlay of the same    *)
(* placement lies over it                                                  *)
OnTop(i) ==
  \A j \in (i + 1)..Len(imageEntries) :
    Placement(imageEntries[j].pdfX, imageEntries[j].pdfY,
              imageEntries[j].pdfW, imageEntries[j].pdfH)
      # Placement(imageEntries[i].pdfX, imageEntries[i].pdfY,
                  imageEntries[i].pdfW, imageEntries[i].pdfH)

(* click on the Delete button of an image overlay *)
ClickDelete(i) ==
  /\ UserCanAct
  /\ i \in 1..Len(imageEntries)
  /\ OnTop(i)
  /\ Become(Log([Cur EXCEPT !.imageEntries[i] = DeleteClicked(@)],
                [ev |-> "imageDelete", region |-> i]))
  /\ UNCHANGED <<curPage, pendingText, pendingImage, commitJob, nEdits>>

(* click on the Replace button of an image overlay and choice of a file:   *)
(* input.onchange up to its await of readFileAsBytes                       *)
ChooseReplacement(i, file) ==
  /\ UserCanAct
  /\ i \in 1..Len(imageEntries)
  /\ OnTop(i)
  /\ Len(pendingReads) < MaxReads
  /\ Become([Cur EXCEPT !.pendingReads = Append(@, [region |-> i, file |-> file])])
  /\ UNCHANGED <<curPage, pendingText, pendingImage, commitJob, nEdits>>

(* readFileAsBytes settles: input.onchange resumes, or the read failed *)
ReadDone(k) ==
  /\ k \in 1..Len(pendingReads)
  /\ LET rd == pendingReads[k]
         rest == [j \in 1..(Len(pendingReads) - 1) |->
                    IF j < k THEN pendingReads[j] ELSE pendingReads[j + 1]]
     IN \E ok \in BOOLEAN :
          IF ok
          THEN Become(Log([Cur EXCEPT !.pendingReads = rest,
                                      !.imageEntries[rd.region] = FileRead(@, rd.file)],
                          [ev |-> "imageReplace", region |-> rd.region]))
          ELSE Become([Cur EXCEPT !.pendingReads = rest])
  /\ UNCHANGED <<curPage, pendingText, pendingImage, commitJob, nEdits>>

(* a commit that goes on without looking for window.PDFLib *)
ReturnsNullUnchecked(changes, lib) == changes = <<>>

(* if (changes.length === 0) return null; if (!PDFLib) return null *)
ReturnsNull(changes, lib) == changes = <<>> \/ ~lib

(* handleCommitImageEdits up to the first await of commitImageEdits; lib   *)
(* tells whether window.PDFLib is there                                    *)
HandleCommitImageEdits ==
  /\ UserCanAct
  /\ imageActive
  /\ \E lib \in BOOLEAN :
       LET changes == ImageChanges(Cur)
       IN IF ReturnsNull(changes, lib)
          THEN Become(Log(exitImageEditMode(Cur),
                          [ev |-> "commitImage", result |-> "null", lib |-> lib,
                           changes |-> Len(changes), draws |-> <<>>]))
          ELSE Become([Cur EXCEPT !.imageJob =
                         <<[pc |-> "load", changes |-> changes, draws |-> <<>>,
                            entries |-> <<>>, lib |-> lib]>>])
  /\ UNCHANGED <<curPage, pendingText, pendingImage, commitJob, nEdits>>

(* commitImageEdits after the document loaded: the loop over changes, each *)
(* entry read as it is now, then doc.save                                  *)
ImageCommitDraw ==
  /\ imageJob # <<>>
  /\ imageJob[1].pc = "load"
  /\ LET job == imageJob[1]
         read == [k \in 1..Len(job.changes) |-> imageEntries[job.changes[k]]]
     IN Become([Cur EXCEPT !.imageJob =
                  <<[job EXCEPT !.pc = "saved",
                                !.entries = read,
                                !.draws = [k \in 1..Len(read) |-> ImageDraws(read[k])]]>>])
  /\ UNCHANGED <<curPage, pendingText, pendingImage, commitJob, nEdits>>

(* handleCommitImageEdits after commitImageEdits returned: reload, then   *)
(* the exit of the finally block                                           *)
ImageCommitFinish ==
  /\ imageJob # <<>>
  /\ imageJob[1].pc = "saved"
  /\ Become(Log([exitImageEditMode(Cur) EXCEPT !.imageJob = <<>>],
                [ev |-> "commitImage", result |-> "bytes", lib |-> imageJob[1].lib,
                 changes |-> Len(imageJob[1].changes), draws |-> imageJob[1].draws]))
  /\ UNCHANGED <<curPage, pendingText, pendingImage, commitJob, nEdits>>

(* renderCurrentPage after navigation or a re-render *)
RenderCurrentPage(p) ==
  /\ UserCanAct
  /\ curPage' = p
  /\ Become(exitImageEditMode(exitTextEditMode(Cur)))
  /\ UNCHANGED <<pendingText, pendingImage, commitJob, nEdits>>

Clickable(z) == z.display = "" /\ z.pointerEvents = ""

(* click on a zone in the container *)
ClickZone(i) ==
  /\ UserCanAct
  /\ i \in 1..Len(zones)
  /\ Clickable(zones[i])
  /\ Become(activateBlock(Cur, zones[i].blockIdx))
  /\ UNCHANGED <<curPage, pendingText, pendingImage, commitJob, nEdits>>

(* the 'focus' listener of a line overlay *)
FocusLine(d) ==
  /\ UserCanAct
  /\ Attached(Cur, d)
  /\ d # focusedLine
  /\ Become([Cur EXCEPT !.focusedLine = d, !.divs[d].snapshotTaken = FALSE])
  /\ UNCHANGED <<curPage, pendingText, pendingImage, commitJob, nEdits>>

(* the 'blur' listener, focus leaving for something outside the toolbar *)
BlurLine ==
  /\ UserCanAct
  /\ focusedLine # 0
  /\ Become([Cur EXCEPT !.focusedLine = 0])
  /\ UNCHANGED <<curPage, pendingText, pendingImage, commitJob, nEdits>>

(* limit bounds the number of edits of a behaviour; 0 leaves it unbounded *)
CanEdit(limit) == UserCanAct /\ focusedLine # 0 /\ (limit = 0 \/ nEdits < limit)

EditFrame(limit) ==
  /\ nEdits' = IF limit = 0 THEN nEdits ELSE nEdits + 1
  /\ UNCHANGED <<curPage, pendingText, pendingImage, commitJob>>

(* the user types in the focused line *)
TypeInLine(c, limit) ==
  /\ CanEdit(limit)
  /\ c # divs[focusedLine].content
  /\ Become(OnInput([Cur EXCEPT !.divs[focusedLine].content = c], focusedLine))
  /\ EditFrame(limit)

(* Bold / Italic on a selection inside the focused line (execCommand) *)
StyleSelection(c, limit) ==
  /\ CanEdit(limit)
  /\ active
  /\ TextContent(c) = TextContent(divs[focusedLine].content)
  /\ c # divs[focusedLine].content
  /\ LET d == focusedLine
         s1 == pushUndo(Cur, d)
         s2 == OnInput([s1 EXCEPT !.divs[d].content = c], d)
     IN Become(applyToFocused(s2, d, s2.divs[d]))
  /\ EditFrame(limit)

(* Bold button or Ctrl+B without a selection *)
ToggleBold(limit) ==
  /\ CanEdit(limit)
  /\ active
  /\ LET d == focusedLine
         s1 == pushUndo(Cur, d)
         isBold == s1.divs[d].fontWeight = "bold"
     IN Become(applyToFocused(s1, d,
          [s1.divs[d] EXCEPT !.fontWeight = IF isBold THEN "normal" ELSE "bold",
                             !.bold = IF isBold THEN "" ELSE "true"]))
  /\ EditFrame(limit)

(* Italic button or Ctrl+I without a selection *)
ToggleItalic(limit) ==
  /\ CanEdit(limit)
  /\ active
  /\ LET d == focusedLine
         s1 == pushUndo(Cur, d)
         isItalic == s1.divs[d].fontStyle = "italic"
     IN Become(applyToFocused(s1, d,
          [s1.divs[d] EXCEPT !.fontStyle = IF isItalic THEN "normal" ELSE "italic",
                             !.italic = IF isItalic THEN "" ELSE "true"]))
  /\ EditFrame(limit)

(* font size select of the text toolbar *)
SetFontSize(val, limit) ==
  /\ CanEdit(limit)
  /\ toolbar = "text"
  /\ LET d == focusedLine
         s1 == pushUndo(Cur, d)
     IN Become(applyToFocused(s1, d, [s1.divs[d] EXCEPT !.fontSizeOverride = val]))
  /\ EditFrame(limit)

(* colour input of the text toolbar *)
SetColor(val, limit) ==
  /\ CanEdit(limit)
  /\ toolbar = "text"
  /\ LET d == focusedLine
         s1 == pushUndo(Cur, d)
     IN Become(applyToFocused(s1, d, [s1.divs[d] EXCEPT !.colorOverride = val]))
  /\ EditFrame(limit)

(* font family select of the text toolbar *)
SetFontFamily(opt, limit) ==
  /\ CanEdit(limit)
  /\ toolbar = "text"
  /\ LET d == focusedLine
         s1 == pushUndo(Cur, d)
     IN Become(applyToFocused(s1, d,
          [s1.divs[d] EXCEPT !.fontFamilyOverride = opt.css,
                             !.fontNameOverride = opt.pdf]))
  /\ EditFrame(limit)

(* Undo button or Ctrl+Z *)
Undo ==
  /\ UserCanAct
  /\ active
  /\ Len(undoStack) > 0
  /\ Become(Log(performUndo(Cur), [ev |-> "undo"]))
  /\ UNCHANGED <<curPage, pendingText, pendingImage, commitJob, nEdits>>

(* Redo button, Ctrl+Y or Ctrl+Shift+Z *)
Redo ==
  /\ UserCanAct
  /\ active
  /\ Len(redoStack) > 0
  /\ Become(Log(performRedo(Cur), [ev |-> "redo"]))
  /\ UNCHANGED <<curPage, pendingText, pendingImage, commitJob, nEdits>>

(* handleCancelTextEdits *)
handleCancelTextEdits(s) == exitTextEditMode(s)

(* click on a button of class text-edit-cancel (either toolbar has one) *)
ClickCancel ==
  /\ UserCanAct
  /\ toolbar # "none"
  /\ Become(handleCancelTextEdits(Cur))
  /\ UNCHANGED <<curPage, pendingText, pendingImage, commitJob, nEdits>>

(* Escape in the text layer *)
PressEscape ==
  /\ UserCanAct
  /\ active
  /\ IF activeBlockIdx >= 0 THEN Become(deactivateBlock(Cur))
     ELSE IF toolbar # "none" THEN Become(handleCancelTextEdits(Cur))
     ELSE Become(Cur)
  /\ UNCHANGED <<curPage, pendingText, pendingImage, commitJob, nEdits>>

(* click on a button of class text-edit-commit, or Ctrl+Enter:            *)
(* handleCommitTextEdits up to the first await of commitTextEdits          *)
ClickApply ==
  /\ UserCanAct
  /\ toolbar # "none"
  /\ active
  /\ \E lib \in BOOLEAN :
       LET s1 == IF activeBlockIdx >= 0 THEN deactivateBlock(Cur) ELSE Cur
           changes == CollectChanges(s1)
       IN IF ~editContainer \/ ReturnsNull(changes, lib)
          THEN /\ Become(Log(exitTextEditMode(s1),
                             [ev |-> "commitText", result |-> "null", lib |-> lib,
                              changes |-> Len(changes), draws |-> <<>>]))
               /\ UNCHANGED commitJob
          ELSE /\ Become(s1)
               /\ commitJob' = <<[pc |-> "load", changes |-> changes, draws |-> <<>>,
                                  bad |-> "", lib |-> lib]>>
  /\ UNCHANGED <<curPage, pendingText, pendingImage, nEdits>>

(* commitTextEdits after the document loaded: the draw loop, then either  *)
(* doc.save or the exception of a font that does not embed                 *)
CommitDraw ==
  /\ commitJob # <<>>
  /\ commitJob[1].pc = "load"
  /\ \E bad \in {""} \cup UNION {FontsOf(commitJob[1].changes[k]) :
                                  k \in 1..Len(commitJob[1].changes)} :
       LET loop == DrawLoop(commitJob[1].changes, bad)
       IN commitJob' = <<[commitJob[1] EXCEPT
                            !.pc = IF loop.thrown THEN "failed" ELSE "saved",
                            !.draws = loop.draws,
                            !.bad = bad]>>
  /\ Become(Cur)
  /\ UNCHANGED <<curPage, pendingText, pendingImage, nEdits>>

(* a handler that ends without its finally block *)
CommitFinishNoExit ==
  /\ commitJob # <<>>
  /\ commitJob[1].pc \in {"saved", "failed"}
  /\ commitJob' = <<>>
  /\ Become(Log(Cur,
                [ev |-> "commitText",
                 result |-> IF commitJob[1].pc = "saved" THEN "bytes" ELSE "error",
                 lib |-> commitJob[1].lib, changes |-> Len(commitJob[1].changes),
                 draws |-> commitJob[1].draws]))
  /\ UNCHANGED <<curPage, pendingText, pendingImage, nEdits>>

(* handleCommitTextEdits after commitTextEdits returned or threw: reload   *)
(* or error toast, then the exit of the finally block                      *)
CommitFinish ==
  /\ commitJob # <<>>
  /\ commitJob[1].pc \in {"saved", "failed"}
  /\ commitJob' = <<>>
  /\ Become(Log(exitImageEditMode(exitTextEditMode(Cur)),
                [ev |-> "commitText",
                 result |-> IF commitJob[1].pc = "saved" THEN "bytes" ELSE "error",
                 lib |-> commitJob[1].lib, changes |-> Len(commitJob[1].changes),
                 draws |-> commitJob[1].draws]))
  /\ UNCHANGED <<curPage, pendingText, pendingImage, nEdits>>

(* a text-edit session on one page, one enterTextEditMode call at a time, *)
(* with a host that passes the rendered canvas or none                     *)
Next ==
  \/ HandleEditText(BOOLEAN, 1)
  \/ EnterTextResume(curPage, TextLayer, {FALSE})
  \/ \E i \in 1..Len(zones) : ClickZone(i)
  \/ \E d \in DOMAIN divs : FocusLine(d)
  \/ BlurLine
  \/ \E c \in EditContents : TypeInLine(c, MaxEdits)
  \/ \E c \in EditContents : StyleSelection(c, MaxEdits)
  \/ ToggleBold(MaxEdits)
  \/ ToggleItalic(MaxEdits)
  \/ \E v \in FontSizeOptions : SetFontSize(v, MaxEdits)
  \/ \E v \in ColorOptions : SetColor(v, MaxEdits)
  \/ \E o \in FontFamilyOptions : SetFontFamily(o, MaxEdits)
  \/ ClickCancel
  \/ PressEscape
  \/ ClickApply
  \/ CommitDraw
  \/ CommitFinish

Spec == Init /\ [][Next]_vars

(* both editing modes, page navigation, overlapping enter calls and a     *)
(* host that may pass no canvas; no edits                                  *)
NextModes ==
  \/ HandleEditText(BOOLEAN, MaxPending)
  \/ \E p \in Pages : EnterTextResume(p, TextLayer, {FALSE})
  \/ HandleEditImage(MaxPending)
  \/ \E p \in Pages : EnterImageResume(p)
  \/ \E p \in Pages : RenderCurrentPage(p)
  \/ \E i \in 1..Len(zones) : ClickZone(i)
  \/ ClickCancel
  \/ PressEscape
  \/ ClickApply

SpecModes == Init /\ [][NextModes]_vars

(* overlapping enterTextEditMode calls with typing and commit *)
NextRace ==
  \/ HandleEditText({TRUE}, MaxPending)
  \/ EnterTextResume(curPage, TextLayer, {FALSE})
  \/ \E i \in 1..Len(zones) : ClickZone(i)
  \/ \E d \in DOMAIN divs : FocusLine(d)
  \/ TypeInLine(<<TextNode(<<"x">>)>>, MaxTyped)
  \/ ClickApply
  \/ CommitDraw
  \/ CommitFinish

SpecRace == Init /\ [][NextRace]_vars

(* one block edited at its first line, with the undo history unbounded *)
NextUndo ==
  \/ HandleEditText({TRUE}, 1)
  \/ EnterTextResume(curPage, TextLayer, {FALSE})
  \/ ClickZone(1)
  \/ ToggleBold(0)
  \/ Undo
  \/ Redo
  \/ ClickCancel

SpecUndo == Init /\ [][NextUndo]_vars

(* the text-edit session with the undo and redo controls *)
NextHistory ==
  \/ HandleEditText({TRUE}, 1)
  \/ EnterTextResume(curPage, TextLayer, {FALSE})
  \/ \E i \in 1..Len(zones) : ClickZone(i)
  \/ \E d \in DOMAIN divs : FocusLine(d)
  \/ \E c \in EditContents : TypeInLine(c, MaxEdits)
  \/ ToggleBold(MaxEdits)
  \/ \E v \in ColorOptions : SetColor(v, MaxEdits)
  \/ Undo
  \/ Redo
  \/ ClickCancel
  \/ PressEscape
  \/ ClickApply
  \/ CommitDraw
  \/ CommitFinish

SpecHistory == Init /\ [][NextHistory]_vars

(* overlapping enterTextEditMode calls, block switches and Escape *)
NextSwitch ==
  \/ HandleEditText({TRUE}, MaxPending)
  \/ EnterTextResume(curPage, TextLayer, {FALSE})
  \/ \E i \in 1..Len(zones) : ClickZone(i)
  \/ TypeInLine(<<TextNode(<<"x">>)>>, MaxEdits)
  \/ PressEscape

SpecSwitch == Init /\ [][NextSwitch]_vars

(* entering text-edit mode on a page whose extraction may fail, with or    *)
(* without stored OCR results                                              *)
NextEnter ==
  \/ HandleEditText(BOOLEAN, 1)
  \/ EnterTextResume(curPage, Extractions, BOOLEAN)
  \/ \E i \in 1..Len(zones) : ClickZone(i)
  \/ \E d \in DOMAIN divs : FocusLine(d)
  \/ \E c \in EditContents : TypeInLine(c, MaxEdits)
  \/ ToggleBold(MaxEdits)
  \/ ClickCancel
  \/ PressEscape
  \/ ClickApply
  \/ CommitDraw
  \/ CommitFinish

SpecEnter == Init /\ [][NextEnter]_vars

(* both commits, with and without the document library *)
NextCommit ==
  \/ HandleEditText({TRUE}, 1)
  \/ EnterTextResume(curPage, TextLayer, {FALSE})
  \/ \E i \in 1..Len(zones) : ClickZone(i)
  \/ TypeInLine(<<TextNode(<<"x">>)>>, MaxEdits)
  \/ ClickApply
  \/ CommitDraw
  \/ CommitFinish
  \/ HandleEditImage(1)
  \/ EnterImageResume(curPage)
  \/ \E i \in 1..Len(imageEntries) : ClickDelete(i)
  \/ HandleCommitImageEdits
  \/ ImageCommitDraw
  \/ ImageCommitFinish

SpecCommit == Init /\ [][NextCommit]_vars

(* an image-edit session on one page: regions deleted and replaced, files *)
(* read in the background, and the commit                                  *)
NextImage ==
  \/ HandleEditImage(1)
  \/ EnterImageResume(curPage)
  \/ \E i \in 1..Len(imageEntries) : ClickDelete(i)
  \/ \E i \in 1..Len(imageEntries) : \E f \in Files : ChooseReplacement(i, f)
  \/ \E k \in 1..Len(pendingReads) : ReadDone(k)
  \/ HandleCommitImageEdits
  \/ ImageCommitDraw
  \/ ImageCommitFinish

SpecImage == Init /\ [][NextImage]_vars

(* a session in which lines are typed over more than once: blocks left     *)
(* with Escape, entered again, changed or typed back to what they were     *)
NextRevert ==
  \/ HandleEditText({TRUE}, 1)
  \/ EnterTextResume(curPage, {"items"}, {FALSE})
  \/ \E i \in 1..Len(zones) : ClickZone(i)
  \/ \E c \in EditContents : TypeInLine(c, MaxTyped)
  \/ PressEscape
  \/ ClickApply
  \/ CommitDraw
  \/ CommitFinish

SpecRevert == Init /\ [][NextRevert]_vars

(* a function of the module returns *)
Return(value) ==
  /\ callArgs # <<>>
  /\ callResult = <<>>
  /\ Become([Cur EXCEPT !.callResult = <<value>>])
  /\ UNCHANGED <<curPage, pendingText, pendingImage, commitJob, nEdits>>

(* the pure functions of the module, each called once on arguments drawn   *)
(* from bounded sets: item lists of up to MaxRuns items whose positions    *)
(* lie on both sides of the rounding, line and gap thresholds; pages of up *)
(* to MaxBands bands that are filled uniformly or in two columns           *)
(* (x in [0,280] and [360,600]), the columns side by side or one above the *)
(* other; line lists on both sides of the paragraph thresholds; font      *)
(* names with and without family and style keywords, with every style     *)
(* hint; regions of up to MaxPixels pixels, opaque or not, whose luminance *)
(* lies on both sides of the thresholds of a white, a mid-gray (150) and a *)
(* missing background colour; operator lists of up to MaxOps operators of *)
(* save, restore, image paints, scalings and a translation, of which at    *)
(* most MaxTransforms are transforms                                       *)
InitCalls ==
  LET Op(fn, args) == [fn |-> fn, args |-> args]
      Operators == {Op("save", <<>>), Op("restore", <<>>),
                    Op("paintImageXObject", <<>>),
                    Op("transform", <<100, 0, 0, 1, 0, 0>>),
                    Op("transform", <<100, 0, 0, 100, 0, 0>>),
                    Op("transform", <<1, 0, 0, 1, 0, 700>>)}
      Px(r, g, b, a) == [r |-> r, g |-> g, b |-> b, a |-> a]
      Pixels == {Px(130, 130, 130, 255), Px(110, 110, 110, 255),
                 Px(111, 111, 111, 255), Px(0, 0, 0, 255), Px(3, 2, 1, 255),
                 Px(0, 0, 0, 0), Px(255, 0, 0, 255)}
      FontNames == {Arial, ArialBold, Times, <<"courier", "new">>,
                    <<"helvetica", "-", "oblique">>, <<"times", "-", "bold", "italic">>,
                    <<"arial", "black">>, <<"georgia">>, <<"g_d0_f1">>}
      It(str, left, top, width, fontSize) ==
        [str |-> str, fontName |-> Arial, left |-> left, top |-> top,
         width |-> width, fontSize |-> fontSize]
      Runs == {It(<<"a">>, 0, 0, 100, 100), It(<<"b">>, 4, 0, 100, 100),
               It(<<"c">>, 6, 20, 100, 100), It(<<"d">>, 160, 0, 100, 100),
               It(<<"e">>, 110, 0, 100, 200), It(<<" ">>, 0, 0, 100, 100),
               It(<<"f">>, 0, 200, 100, 100), It(<<"g">>, 100, 40, 100, 100)}
      Ln(top, left, width, fontSize, fontName) ==
        [text |-> <<"a">>, top |-> top, left |-> left, width |-> width,
         height |-> 120, fontSize |-> fontSize, fontName |-> fontName, pdfItems |-> <<>>]
      Lines == {Ln(0, 0, 1000, 100, Arial), Ln(150, 0, 1000, 100, Arial),
                Ln(300, 0, 1000, 100, Arial), Ln(150, 180, 1000, 100, Arial),
                Ln(150, 0, 500, 100, Arial), Ln(150, 0, 1000, 110, Arial),
                Ln(150, 0, 1000, 120, Arial), Ln(150, 0, 1000, 100, Times)}
      Filled(from, to, top, pieces) ==
        [p \in 1..pieces |->
           It(<<"a">>, from + ((p - 1) * (to - from)) \div pieces, top,
              (to - from) \div pieces, 100)]
      Page(kind, bands, pieces) ==
        IF kind = "uniform"
        THEN Flatten([k \in 1..bands |-> Filled(0, 6000, (k - 1) * 150, pieces)])
        ELSE Flatten([k \in 1..bands |-> Filled(0, 2800, (k - 1) * 150, pieces)])
               \o Flatten([k \in 1..bands |->
                    Filled(3600, 6000,
                           (IF kind = "stacked" THEN bands + k - 1 ELSE k - 1) * 150,
                           pieces)])
  IN /\ ModuleLoaded
     /\ callResult = <<>>
     /\ \/ \E fn \in {"groupIntoLines", "detectColumnSplit", "enterTextEditMode"} :
             \/ \E n \in 0..MaxRuns : \E mapped \in [1..n -> Runs] :
                  callArgs = <<[fn |-> fn, kind |-> "items", bands |-> 0,
                                mapped |-> mapped, pageWidth |-> 6000]>>
             \/ \E kind \in {"uniform", "beside", "stacked"} :
                \E bands \in 1..MaxBands : \E pieces \in 1..2 :
                \E pageWidth \in {6000, 6120} :
                  callArgs = <<[fn |-> fn, kind |-> kind, bands |-> bands,
                                mapped |-> Page(kind, bands, pieces),
                                pageWidth |-> pageWidth]>>
        \/ \E n \in 0..MaxRuns : \E lines \in [1..n -> Lines] :
             callArgs = <<[fn |-> "groupIntoParagraphs", lines |-> lines]>>
        \/ \E fontName \in FontNames : \E bold, italic \in BOOLEAN :
             callArgs = <<[fn |-> "getFont", fontName |-> fontName,
                           bold |-> bold, italic |-> italic]>>
        \/ \E fontName \in FontNames :
           \E fontWeight \in {"", "normal", "bold", "700"} :
           \E fontStyle \in {"", "normal", "italic", "oblique"} :
           \E fontFamily \in {<<>>, <<"sans-serif">>, <<"arial", "bold">>,
                               <<"times", "italic">>} :
             callArgs = <<[fn |-> "detectFontStyleWithMeta", fontName |-> fontName,
                           styleInfo |-> [fontWeight |-> fontWeight,
                                          fontStyle |-> fontStyle,
                                          fontFamily |-> fontFamily]]>>
        \/ \E n \in 0..MaxPixels : \E data \in [1..n -> Pixels] :
           \E bgHex \in {<<"#", "9", "6", "9", "6", "9", "6">>,
                          <<"#", "f", "f", "f", "f", "f", "f">>, <<>>} :
             callArgs = <<[fn |-> "sampleTextColor", data |-> data, bgHex |-> bgHex]>>
        \/ \E n \in 0..MaxOps : \E ops \in [1..n -> Operators] :
             /\ Cardinality({i \in 1..n : ops[i].fn = "transform"}) <= MaxTransforms
             /\ callArgs = <<[fn |-> "extractImagePositions", ops |-> ops]>>

NextCalls ==
  \/ /\ callArgs[1].fn = "groupIntoLines"
     /\ Return(groupIntoLines(callArgs[1].mapped, callArgs[1].pageWidth))
  \/ /\ callArgs[1].fn = "detectColumnSplit"
     /\ Return(detectColumnSplit(callArgs[1].mapped, callArgs[1].pageWidth))
  \/ /\ callArgs[1].fn = "groupIntoParagraphs"
     /\ Return(groupIntoParagraphs(callArgs[1].lines))
  \/ /\ callArgs[1].fn = "enterTextEditMode"
     /\ Return(groupIntoParagraphs(groupIntoLines(callArgs[1].mapped,
                                                  callArgs[1].pageWidth)))
  \/ /\ callArgs[1].fn = "getFont"
     /\ Return(getFont(callArgs[1].fontName, callArgs[1].bold, callArgs[1].italic))
  \/ /\ callArgs[1].fn = "extractImagePositions"
     /\ Return(extractImagePositionsOfOps(callArgs[1].ops))
  \/ /\ callArgs[1].fn = "sampleTextColor"
     /\ Return(sampleTextColorOfData(callArgs[1].data, callArgs[1].bgHex))
  \/ /\ callArgs[1].fn = "detectFontStyleWithMeta"
     /\ Return([cssFont |-> mapToCSSFont(callArgs[1].fontName),
                nameStyle |-> detectFontStyleWithMeta(callArgs[1].fontName,
                                                      callArgs[1].styleInfo)])

SpecCalls == InitCalls /\ [][NextCalls]_vars

(* ------------------------------- claims -------------------------------- *)
(* positions in a handler's event log of an event on a block *)
Pos(tr, ev, blk) == {i \in 1..Len(tr) : tr[i].ev = ev /\ tr[i].blk = blk}

BlockIndices == 0..1

(* C1: in a text-edit session line overlays exist only for the block that *)
(* _activeBlockIdx names, and none exists when _activeBlockIdx is -1.      *)
C1_OverlaysOnlyForActiveBlock ==
  active =>
    \A k \in 1..Len(lineEls) :
      activeBlockIdx # NoIdx /\ divs[lineEls[k]].blockIdx = activeBlockIdx

(* C2: when block B is activated while block A is active, A's overlays    *)
(* are removed, its dirty lines are put in the store and its raster        *)
(* snapshot is restored, all before the first overlay of B is created.     *)
C2_DeactivatesBeforeActivating ==
  [][\A A \in BlockIndices, B \in BlockIndices :
       (activeBlockIdx = A /\ activeBlockIdx' = B /\ A # B) =>
         LET created == Pos(trace', "createOverlays", B)
             linesOfA == BlockLines(Cur, A)
             dirtyA == \E k \in 1..Len(linesOfA) :
                          LineChanged(divs[linesOfA[k]]) \/ divs[linesOfA[k]].dirtyCls
         IN /\ created # {}
            /\ \A c \in created :
                 /\ \E r \in Pos(trace', "removeOverlays", A) : r < c
                 /\ dirtyA => \E q \in Pos(trace', "persist", A) : q < c
                 /\ canvasSnapshot # <<>> =>
                      \E q \in Pos(trace', "restore", canvasSnapshot[1].blk) : q < c
            /\ dirtyA => MapHas(editedBlocks', A)
            /\ \A k \in 1..Len(lineEls') : divs'[lineEls'[k]].blockIdx = B]_vars

(* a dirty block A was left for block B in one click *)
C2_Witness ==
  \E A \in BlockIndices, B \in BlockIndices :
    /\ A # B
    /\ activeBlockIdx = B
    /\ Pos(trace, "persist", A) # {}
    /\ Pos(trace, "restore", A) # {}
    /\ Pos(trace, "createOverlays", B) # {}

(* C3: text-edit mode and image-edit mode are never active together.      *)
C3_OneModeAtATime == ~(active /\ imageActive)

(* C4: while the user has changed nothing, activating and deactivating    *)
(* blocks leaves the dirty store without a record and no zone marked       *)
(* dirty, whatever the lines contain.                                      *)
C4_NoOpLeavesNothingDirty ==
  nEdits = 0 =>
    /\ editedBlocks = <<>>
    /\ \A i \in 1..Len(zones) : ~zones[i].dirty

(* a line differs from the values captured when its overlay was built *)
C5_Differs(div) ==
  \/ TextContent(div.content) # div.original
  \/ div.fontSizeOverride # ""
  \/ div.colorOverride # ""
  \/ div.fontFamilyOverride # ""
  \/ div.bold # div.initialBold
  \/ div.italic # div.initialItalic
  \/ normalizeInlineHtml(InnerHTML(div.content)) # div.originalHtml

(* C5: when a block with a line that differs from its captured values is  *)
(* deactivated, the block's lines are put in the store under its index     *)
(* and, while the session goes on, each such line has dirty = TRUE there.  *)
C5_ChangedLinesAreStored ==
  [][\A A \in BlockIndices :
       LET linesOfA == BlockLines(Cur, A)
       IN (/\ activeBlockIdx = A
           /\ activeBlockIdx' # A
           /\ \E k \in 1..Len(linesOfA) : C5_Differs(divs[linesOfA[k]])) =>
            /\ Pos(trace', "persist", A) # {}
            /\ active' =>
                 /\ MapHas(editedBlocks', A)
                 /\ Len(MapGet(editedBlocks', A)) = Len(linesOfA)
                 /\ \A k \in 1..Len(linesOfA) :
                      C5_Differs(divs[linesOfA[k]]) =>
                        MapGet(editedBlocks', A)[k].dirty]_vars

(* a deactivated block is in the store with a line that is dirty only by   *)
(* its colour override                                                     *)
C5_Witness ==
  /\ active
  /\ activeBlockIdx = NoIdx
  /\ \E i \in 1..Len(editedBlocks) : \E k \in 1..Len(editedBlocks[i].val) :
       LET l == editedBlocks[i].val[k]
       IN l.dirty /\ l.colorOverride # "" /\ l.text = <<"a", "b">>

(* the commit whose draw loop has run *)
Saved == commitJob # <<>> /\ commitJob[1].pc = "saved"

(* baselines of the lines that are dirty when commitTextEdits collects *)
DirtyLineYs ==
  UNION {{editedBlocks[i].val[k].pdfY :
            k \in {k \in 1..Len(editedBlocks[i].val) : editedBlocks[i].val[k].dirty}} :
           i \in 1..Len(editedBlocks)}
    \cup {divs[lineEls[k]].pdfY :
            k \in {k \in 1..Len(lineEls) : LineChanged(divs[lineEls[k]])}}

(* C6: a commit collects each dirty line of the page once and no other    *)
(* line, and draws for each collected line one cover rectangle followed    *)
(* by that line's text draws.                                              *)
C6_EachDirtyLineAppliedOnce ==
  /\ [][(commitJob = <<>> /\ commitJob' # <<>>) =>
          LET changes == commitJob'[1].changes
          IN /\ \A k1 \in 1..Len(changes), k2 \in 1..Len(changes) :
                  changes[k1].pdfY = changes[k2].pdfY => k1 = k2
             /\ {changes[k].pdfY : k \in 1..Len(changes)} = DirtyLineYs']_vars
  /\ [](Saved =>
          LET changes == commitJob[1].changes
              draws == commitJob[1].draws
          IN /\ Len(draws) = Len(changes)
             /\ \A k \in 1..Len(draws) :
                  /\ draws[k][1].op = "rect"
                  /\ draws[k][1].lineY = changes[k].pdfY
                  /\ \A j \in 2..Len(draws[k]) :
                       draws[k][j].op = "text" /\ draws[k][j].lineY = changes[k].pdfY)

C8_StacksOnlyForActiveBlock ==
  \A snap \in {undoStack[i] : i \in 1..Len(undoStack)}
                \cup {redoStack[i] : i \in 1..Len(redoStack)} :
    /\ activeBlockIdx # NoIdx
    /\ Attached(Cur, snap.div)
    /\ divs[snap.div].blockIdx = activeBlockIdx

C11_StoreEmptyOnceApplied == Saved => editedBlocks = <<>>

(* C11: commitTextEdits leaves the dirty-block store as it collected it;   *)
(* the store is emptied when handleCommitTextEdits ends (its finally runs  *)
(* exitTextEditMode), and from then on a commit finds no session, no line  *)
(* overlay and no record, so it applies nothing.                           *)
C11_HandlerClearsStore ==
  /\ [][(commitJob # <<>> /\ commitJob' # <<>>) => editedBlocks' = editedBlocks]_vars
  /\ [][(commitJob # <<>> /\ commitJob' = <<>>) =>
          /\ editedBlocks' = <<>>
          /\ ~active'
          /\ lineEls' = <<>>
          /\ CollectChanges(Cur)' = <<>>]_vars

(* the draw loop of a commit has run over records that are in the store *)
C11_Witness ==
  /\ Saved
  /\ \E i \in 1..Len(editedBlocks) : \E k \in 1..Len(editedBlocks[i].val) :
       /\ editedBlocks[i].val[k].dirty
       /\ \E c \in 1..Len(commitJob[1].changes) :
            commitJob[1].changes[c].pdfY = editedBlocks[i].val[k].pdfY

CommitOver == commitJob # <<>> /\ commitJob[1].pc # "load"

(* C14: when the font of a dirty record does not embed, commitTextEdits    *)
(* still returns the mutated document and has drawn every record whose     *)
(* fonts embed.                                                            *)
C14_FailedFontSkipsOneRecord ==
  CommitOver =>
    LET job == commitJob[1]
    IN /\ job.pc = "saved"
       /\ Len(job.draws) = Len(job.changes)
       /\ \A k \in 1..Len(job.changes) :
            job.bad \notin FontsOf(job.changes[k]) =>
              job.draws[k] = DrawChange(job.changes[k])

(* the image commit whose draw loop has run *)
ImageSaved == imageJob # <<>> /\ imageJob[1].pc = "saved"

(* the data of a file that neither embedPng nor embedJpg accepts *)
Unembeddable(e) ==
  e.action = "replace" /\ e.replaceSrc # <<>> /\ e.replaceSrc[1].bytes \notin {"png", "jpg"}

(* C15: a replacement image that does not embed, also at the second        *)
(* attempt, costs its region the image draw only: the region's cover       *)
(* rectangle is drawn, every other changed region gets its draw calls and  *)
(* commitImageEdits returns the document.                                  *)
C15_FailedImageKeepsCover ==
  /\ ImageSaved =>
       LET job == imageJob[1]
       IN /\ Len(job.draws) = Len(job.changes)
          /\ \A k \in 1..Len(job.changes) :
               LET e == job.entries[k]
               IN IF Unembeddable(e) THEN job.draws[k] = <<ImageCover(e)>>
                  ELSE /\ Len(job.draws[k]) = (IF e.action = "replace" THEN 2 ELSE 1)
                       /\ job.draws[k][1] = ImageCover(e)
  /\ \A i \in 1..Len(trace) :
       (trace[i].ev = "commitImage" /\ trace[i].lib /\ trace[i].changes > 0) =>
         trace[i].result = "bytes"

(* a region whose file does not embed was committed with another region *)
C15_Witness ==
  /\ ImageSaved
  /\ \E k \in 1..Len(imageJob[1].entries) :
       Unembeddable(imageJob[1].entries[k]) /\ Len(imageJob[1].draws[k]) = 1
  /\ \E k \in 1..Len(imageJob[1].entries) :
       imageJob[1].entries[k].action = "delete" /\ Len(imageJob[1].draws[k]) = 1

(* C16: when getTextContent throws, enterTextEditMode goes on as with no   *)
(* item: with lines in the stored OCR results it opens the session on      *)
(* them; without, it returns false, the session stays inactive and no      *)
(* zone and no toolbar is created.                                         *)
C16_ExtractionFailureDegrades ==
  [][\A i \in 1..Len(trace') :
       (trace'[i].ev = "enterText" /\ trace'[i].threw) =>
         IF trace'[i].ocr
         THEN /\ trace'[i].result = TRUE
              /\ active' /\ paragraphData' = OcrParagraphs(sessionPage')
              /\ Len(zones') = Len(paragraphData')
         ELSE /\ trace'[i].result = FALSE
              /\ ~active' /\ zones' = <<>> /\ toolbar' = "none"
              /\ paragraphData' = <<>>]_vars

(* extraction threw, no OCR line: the call returned false *)
C16_Witness ==
  /\ ~active
  /\ zones = <<>>
  /\ \E i \in 1..Len(trace) :
       /\ trace[i].ev = "enterText" /\ trace[i].threw
       /\ ~trace[i].ocr /\ trace[i].result = FALSE

(* C17: when reading the operator list throws, enterImageEditMode returns  *)
(* false, as for a page without images, and image-edit mode stays          *)
(* inactive.                                                               *)
C17_ImageExtractionFailureReturnsFalse ==
  \A i \in 1..Len(trace) :
    (trace[i].ev = "enterImage" /\ trace[i].threw) =>
      trace[i].result = "false" /\ ~imageActive

(* C18: without the document library commitTextEdits and commitImageEdits  *)
(* return null: no commit goes on to load the document, and the call ends  *)
(* with a null result and no draw call.                                    *)
C18_NoLibraryReturnsNull ==
  /\ [][(commitJob = <<>> /\ commitJob' # <<>>) => commitJob'[1].lib]_vars
  /\ [][(imageJob = <<>> /\ imageJob' # <<>>) => imageJob'[1].lib]_vars
  /\ [][\A i \in 1..Len(trace') :
          (trace'[i].ev \in {"commitText", "commitImage"} /\ ~trace'[i].lib) =>
            /\ trace'[i].result = "null" /\ trace'[i].draws = <<>>
            /\ commitJob' = <<>> /\ imageJob' = <<>>]_vars

(* commitTextEdits had changes to apply and returned null for want of the  *)
(* library                                                                 *)
C18_Witness ==
  \E i \in 1..Len(trace) :
    /\ trace[i].ev = "commitText" /\ ~trace[i].lib
    /\ trace[i].changes > 0 /\ trace[i].result = "null"

(* the draw calls made for the tracked region at position i *)
DrawsOfRegion(i) ==
  LET ks == {k \in 1..Len(imageJob[1].changes) : imageJob[1].changes[k] = i}
  IN IF ks = {} THEN <<>> ELSE imageJob[1].draws[CHOOSE k \in ks : TRUE]

ImageDrawOf(e) ==
  [op |-> "image", x |-> e.pdfX, y |-> e.pdfY, width |-> e.pdfW, height |-> e.pdfH,
   bytes |-> e.replaceSrc[1].bytes]

(* C19 as stated: the draw calls of a region follow from its action alone: *)
(* none for none, one cover rectangle for delete, the cover rectangle and  *)
(* one image draw for replace.                                             *)
C19_DrawsByActionOnly ==
  ImageSaved =>
    \A k \in 1..Len(imageJob[1].changes) :
      LET e == imageJob[1].entries[k]
          d == imageJob[1].draws[k]
      IN CASE e.action = "none" -> d = <<>>
           [] e.action = "delete" -> d = <<ImageCover(e)>>
           [] e.action = "replace" -> d = <<ImageCover(e), ImageDrawOf(e)>>

(* C19: commitImageEdits takes the regions whose action is not none when   *)
(* it is called, each once; for a region read as delete it draws one cover *)
(* rectangle of the original geometry, for a region read as replace that   *)
(* cover rectangle and then, if the replacement embeds, one image draw of  *)
(* the original x, y, width and height, else nothing more; a region left   *)
(* at none gets no draw call.                                              *)
C19_DrawsByActionAndEmbedding ==
  /\ [][(imageJob = <<>> /\ imageJob' # <<>>) =>
          /\ \A i \in 1..Len(imageEntries) :
               (\E k \in 1..Len(imageJob'[1].changes) : imageJob'[1].changes[k] = i)
                 <=> (imageEntries[i].tracked /\ imageEntries[i].action # "none")
          /\ \A k1, k2 \in 1..Len(imageJob'[1].changes) :
               imageJob'[1].changes[k1] = imageJob'[1].changes[k2] => k1 = k2]_vars
  /\ [](ImageSaved =>
          /\ Len(imageJob[1].draws) = Len(imageJob[1].changes)
          /\ \A k \in 1..Len(imageJob[1].changes) :
               LET e == imageJob[1].entries[k]
                   d == imageJob[1].draws[k]
               IN CASE e.action = "delete" -> d = <<ImageCover(e)>>
                    [] e.action = "replace" ->
                         IF e.replaceSrc[1].bytes \in {"png", "jpg"}
                         THEN d = <<ImageCover(e), ImageDrawOf(e)>>
                         ELSE d = <<ImageCover(e)>>
                    [] OTHER -> FALSE
          /\ \A i \in 1..Len(imageEntries) :
               imageEntries[i].action = "none" => DrawsOfRegion(i) = <<>>)

(* one commit over a region left at none, a deleted region and a region   *)
(* replaced by an image that embedded at the second attempt                *)
C19_Witness ==
  /\ ImageSaved
  /\ \E k \in 1..Len(imageJob[1].entries) :
       /\ imageJob[1].entries[k].action = "replace"
       /\ imageJob[1].entries[k].replaceSrc[1] = [bytes |-> "jpg", type |-> "image/png"]
       /\ Len(imageJob[1].draws[k]) = 2
  /\ \E k \in 1..Len(imageJob[1].entries) :
       imageJob[1].entries[k].action = "delete" /\ Len(imageJob[1].draws[k]) = 1
  /\ \E i \in 1..Len(imageEntries) :
       imageEntries[i].action = "none" /\ DrawsOfRegion(i) = <<>>

(* C20: every region's action is none, delete or replace, a region holds   *)
(* replacement data exactly when its action is replace, and a step that    *)
(* changes a region's action or data is a click on that region's Delete    *)
(* button or the end of a file read started with its Replace button, and   *)
(* changes no other region.                                                *)
C20_RegionsIndependent ==
  /\ [](\A i \in 1..Len(imageEntries) :
          /\ imageEntries[i].action \in {"none", "delete", "replace"}
          /\ imageEntries[i].replaceSrc # <<>> <=> imageEntries[i].action = "replace")
  /\ [][\A i \in 1..Len(imageEntries) :
          (i <= Len(imageEntries') /\
           (imageEntries'[i].action # imageEntries[i].action \/
            imageEntries'[i].replaceSrc # imageEntries[i].replaceSrc)) =>
            /\ \E t \in 1..Len(trace') :
                 /\ trace'[t].ev \in {"imageDelete", "imageReplace"}
                 /\ trace'[t].region = i
            /\ Len(imageEntries') = Len(imageEntries)
            /\ \A j \in 1..Len(imageEntries) :
                 j # i => imageEntries'[j] = imageEntries[j]]_vars

(* a replaced region was deleted while the other region stays replaced *)
C20_Witness ==
  /\ \E i \in 1..Len(imageEntries) :
       /\ imageEntries[i].action = "delete"
       /\ \E t \in 1..Len(trace) : trace[t].ev = "imageDelete" /\ trace[t].region = i
  /\ \E j \in 1..Len(imageEntries) : imageEntries[j].action = "replace"

(* C21: exiting an editing mode discards the pending changes of that mode. *)
(* While image-edit mode is off no region has a pending action, so         *)
(* hasImageEditChanges() is false and commitImageEdits returns null; while *)
(* text-edit mode is off neither the store nor a line overlay holds an     *)
(* edit a commit would collect; the step that turns text-edit mode off     *)
(* empties the store and removes the overlays, and the session that is     *)
(* entered next starts with nothing to commit.                             *)
C21_ExitDiscardsPending ==
  /\ [](~imageActive =>
          /\ \A i \in 1..Len(imageEntries) : imageEntries[i].action = "none"
          /\ ImageChanges(Cur) = <<>>
          /\ \A lib \in BOOLEAN : ReturnsNull(ImageChanges(Cur), lib))
  /\ [](~active => (editedBlocks = <<>> /\ lineEls = <<>> /\ CollectChanges(Cur) = <<>>))
  /\ [][(active /\ ~active') =>
          (editedBlocks' = <<>> /\ lineEls' = <<>> /\ activeBlockIdx' = NoIdx)]_vars
  /\ [][(~active /\ active') => CollectChanges(Cur)' = <<>>]_vars
  /\ [][\A i \in 1..Len(trace') :
          (trace'[i].ev \in {"commitText", "commitImage"} /\ trace'[i].changes > 0) =>
            IF trace'[i].ev = "commitText" THEN active ELSE imageActive]_vars

(* text-edit mode was left by an exit that was no part of a commit, while  *)
(* a block was Active with an edit in progress, and the edit was dropped   *)
C21_Witness ==
  /\ ~active /\ ~imageActive
  /\ trace # <<>>
  /\ trace[Len(trace)].ev = "exitText"
  /\ trace[Len(trace)].dropped > 0
  /\ \E A \in BlockIndices : Pos(trace, "persist", A) # {}

(* the position an item is deduplicated by: screen (left, top) rounded to  *)
(* whole pixels                                                            *)
RoundedPosition(item) == <<(item.left + 5) \div 10, (item.top + 5) \div 10>>

(* the indices of the non-blank items of a list *)
NonBlank(mapped) == {i \in 1..Len(mapped) : Trim(mapped[i].str) # <<>>}

(* the items of the lines a call returned, line after line *)
ItemsOfLines(lines) == Flatten([k \in 1..Len(lines) |-> lines[k].pdfItems])

(* C22: of the non-blank items that share a rounded screen position,       *)
(* groupIntoLines keeps exactly one, the one latest in extraction order,   *)
(* and it keeps an item for every distinct rounded position.               *)
C22_DedupKeepsLatest ==
  (callArgs # <<>> /\ callResult # <<>> /\ callArgs[1].fn = "groupIntoLines") =>
    LET mapped == callArgs[1].mapped
        out == ItemsOfLines(callResult[1])
        Latest(i) == CHOOSE j \in NonBlank(mapped) :
                       /\ RoundedPosition(mapped[j]) = RoundedPosition(mapped[i])
                       /\ \A k \in NonBlank(mapped) :
                            RoundedPosition(mapped[k]) = RoundedPosition(mapped[i])
                              => k <= j
    IN /\ \A i \in NonBlank(mapped) :
            LET at == {k \in 1..Len(out) :
                         RoundedPosition(out[k]) = RoundedPosition(mapped[i])}
            IN /\ Cardinality(at) = 1
               /\ \A k \in at : out[k] = mapped[Latest(i)]
       /\ Len(out) = Cardinality({RoundedPosition(mapped[i]) : i \in NonBlank(mapped)})

(* a call on three items, two of them different items at one rounded       *)
(* position and the third elsewhere                                        *)
C22_Witness ==
  /\ callArgs # <<>> /\ callResult # <<>>
  /\ callArgs[1].fn = "groupIntoLines"
  /\ LET mapped == callArgs[1].mapped
     IN /\ Len(mapped) = 3
        /\ NonBlank(mapped) = {1, 2, 3}
        /\ RoundedPosition(mapped[1]) = RoundedPosition(mapped[3])
        /\ mapped[1] # mapped[3]
        /\ RoundedPosition(mapped[2]) # RoundedPosition(mapped[1])
        /\ Len(ItemsOfLines(callResult[1])) = 2

(* the score of bucket b of 100: the 5px bands of the non-blank items that *)
(* reach into the bucket                                                   *)
BucketScore(mapped, pageWidth, b) ==
  Cardinality({((mapped[i].top + 25) \div 50) * 5 : i \in
     {j \in NonBlank(mapped) :
        /\ Max(0, (mapped[j].left * 100) \div pageWidth) <= b
        /\ b <= Min(99, ((mapped[j].left + mapped[j].width) * 100) \div pageWidth)}})

(* C23: detectColumnSplit returns a split X only when the central 30-70%   *)
(* of the page holds a contiguous run of buckets, at least 3% of the page  *)
(* width wide, each scoring at most 15% of the maximum bucket score, with  *)
(* content on both sides, X being the midpoint of the run; items filling   *)
(* x in [0,280] and [360,600] over at least 5 bands give an X in           *)
(* [300,340], and items spanning [0,600] uniformly give no split.          *)
C23_SplitOnlyAtSparseGap ==
  (callArgs # <<>> /\ callResult # <<>> /\ callArgs[1].fn = "detectColumnSplit") =>
    LET mapped == callArgs[1].mapped
        pageWidth == callArgs[1].pageWidth
        split == callResult[1]
        score == [b \in 0..99 |-> BucketScore(mapped, pageWidth, b)]
        maxScore == CHOOSE m \in {score[b] : b \in 0..99} : \A b \in 0..99 : score[b] <= m
    IN /\ split # <<>> =>
            \E from \in 30..70 : \E to \in from..70 :
              /\ to - from + 1 >= 3
              /\ \A b \in from..to : 100 * score[b] <= 15 * maxScore
              /\ \E b \in 0..(from - 1) : score[b] > 0
              /\ \E b \in (to + 1)..99 : score[b] > 0
              /\ split[1] \in {(from + to) * pageWidth, (from + to + 1) * pageWidth}
       /\ (callArgs[1].kind \in {"beside", "stacked"} /\ callArgs[1].bands >= 5) =>
            (split # <<>> /\ 300 * 2000 <= split[1] /\ split[1] <= 340 * 2000)
       /\ callArgs[1].kind = "uniform" => split = <<>>

(* C24: for the two-column page (items filling x in [0,280] and [360,600]  *)
(* over at least 5 bands), groupIntoLines followed by groupIntoParagraphs  *)
(* returns exactly two paragraphs, and every line of the left column comes *)
(* before every line of the right column in the returned order.            *)
C24_TwoColumnsTwoParagraphs ==
  (/\ callArgs # <<>> /\ callResult # <<>>
   /\ callArgs[1].fn = "enterTextEditMode"
   /\ callArgs[1].kind \in {"beside", "stacked"}
   /\ callArgs[1].bands >= 5) =>
    LET paragraphs == callResult[1]
        lines == Flatten(paragraphs)
    IN /\ Len(paragraphs) = 2
       /\ \A i, j \in 1..Len(lines) :
            (lines[i].left < 3000 /\ lines[j].left >= 3000) => i < j

(* C25: the output font getFont resolves from (font name, bold, italic) is *)
(* always one of the embeddable standard variants; it is a bold variant    *)
(* exactly when the bold flag is set and an italic or oblique variant      *)
(* exactly when the italic flag is set, whatever the nominal font name.    *)
C25_VariantFollowsFlags ==
  (callArgs # <<>> /\ callResult # <<>> /\ callArgs[1].fn = "getFont") =>
    /\ callResult[1] \in StandardFonts
    /\ callResult[1] \in {"CourierBold", "CourierBoldOblique", "HelveticaBold",
                          "HelveticaBoldOblique", "TimesRomanBold",
                          "TimesRomanBoldItalic"} <=> callArgs[1].bold
    /\ callResult[1] \in {"CourierOblique", "CourierBoldOblique", "HelveticaOblique",
                          "HelveticaBoldOblique", "TimesRomanItalic",
                          "TimesRomanBoldItalic"} <=> callArgs[1].italic

(* what the style hint of an item signals: weight bold or 700 and above,   *)
(* style italic or oblique, or such a keyword in its family name           *)
HintStyle(styleInfo) ==
  [bold |-> styleInfo.fontWeight \in {"bold", "700", "800", "900"}
              \/ Includes(styleInfo.fontFamily, "bold"),
   italic |-> styleInfo.fontStyle \in {"italic", "oblique"}
              \/ Includes(styleInfo.fontFamily, "italic")
              \/ Includes(styleInfo.fontFamily, "oblique")]

(* C26: style resolution takes the style hint when the hint signals bold   *)
(* or italic, else the keywords of the font name, and is {bold: false,     *)
(* italic: false} when neither signals; for the name ArialMT-Bold without  *)
(* a hint it is {bold: true, italic: false} and the display stack is the   *)
(* sans-serif stack.                                                       *)
C26_HintBeforeName ==
  (callArgs # <<>> /\ callResult # <<>> /\ callArgs[1].fn = "detectFontStyleWithMeta") =>
    LET name == callArgs[1].fontName
        hint == HintStyle(callArgs[1].styleInfo)
        nameBold == \E kw \in {"bold", "heavy", "black"} : Includes(name, kw)
        nameItalic == \E kw \in {"italic", "oblique"} : Includes(name, kw)
        style == callResult[1].nameStyle
    IN /\ (hint.bold \/ hint.italic) => style = hint
       /\ ~(hint.bold \/ hint.italic) => style = [bold |-> nameBold, italic |-> nameItalic]
       /\ ~(hint.bold \/ hint.italic \/ nameBold \/ nameItalic) =>
            style = [bold |-> FALSE, italic |-> FALSE]
       /\ (name = ArialBold /\ callArgs[1].styleInfo = NoStyleInfo) =>
            /\ style = [bold |-> TRUE, italic |-> FALSE]
            /\ callResult[1].cssFont = "sans-serif"

(* a bold font name with a hint that signals italic only: the hint wins *)
C26_Witness ==
  /\ callArgs # <<>> /\ callResult # <<>>
  /\ callArgs[1].fn = "detectFontStyleWithMeta"
  /\ callArgs[1].fontName = ArialBold
  /\ callArgs[1].styleInfo.fontStyle = "italic"
  /\ callArgs[1].styleInfo.fontWeight = "normal"
  /\ callArgs[1].styleInfo.fontFamily = <<"sans-serif">>
  /\ callResult[1].nameStyle = [bold |-> FALSE, italic |-> TRUE]

(* luminance of a pixel, in thousandths *)
Luminance(p) == 299 * p.r + 587 * p.g + 114 * p.b

(* C27: sampleTextColor counts a pixel only if its luminance is at most    *)
(* luminance(background) - 40 and returns the most frequent quantised      *)
(* colour of the counted pixels, or black when no pixel qualifies; with a  *)
(* background of luminance 150 the threshold is 110, so a pixel of         *)
(* luminance 130 is not counted and one of luminance 110 is.               *)
C27_ForegroundBelowBackground ==
  (callArgs # <<>> /\ callResult # <<>> /\ callArgs[1].fn = "sampleTextColor") =>
    LET data == callArgs[1].data
        bgLum == CASE callArgs[1].bgHex = <<"#", "9", "6", "9", "6", "9", "6">> -> 150000
                   [] callArgs[1].bgHex = <<"#", "f", "f", "f", "f", "f", "f">> -> 255000
                   [] OTHER -> 230000
        black == <<"#", "0", "0", "0", "0", "0", "0">>
        Hex(p) ==
          CASE p.r = 130 -> <<"#", "8", "0", "8", "0", "8", "0">>
            [] p.r \in {110, 111} -> <<"#", "6", "c", "6", "c", "6", "c">>
            [] p.r = 255 -> <<"#", "f", "c", "0", "0", "0", "0">>
            [] OTHER -> black
        qualifies == {i \in 1..Len(data) :
                        data[i].a >= 128 /\ Luminance(data[i]) <= bgLum - 40000}
        Count(c) == Cardinality({i \in qualifies : Hex(data[i]) = c})
    IN /\ qualifies = {} => callResult[1] = black
       /\ qualifies # {} =>
            /\ \E i \in qualifies : callResult[1] = Hex(data[i])
            /\ \A i \in qualifies : Count(Hex(data[i])) <= Count(callResult[1])
       /\ (bgLum = 150000 /\ \A i \in 1..Len(data) : Luminance(data[i]) = 130000) =>
            callResult[1] = black

(* on the mid-gray background: two pixels of luminance 130 and one of      *)
(* luminance 110, and the colour of the one is returned                    *)
C27_Witness ==
  /\ callArgs # <<>> /\ callResult # <<>>
  /\ callArgs[1].fn = "sampleTextColor"
  /\ callArgs[1].bgHex = <<"#", "9", "6", "9", "6", "9", "6">>
  /\ Len(callArgs[1].data) = 3
  /\ Cardinality({i \in 1..3 : Luminance(callArgs[1].data[i]) = 130000}) = 2
  /\ \E i \in 1..3 : Luminance(callArgs[1].data[i]) = 110000
  /\ callResult[1] = <<"#", "6", "c", "6", "c", "6", "c">>

(* the product of two matrices [a, b, c, d, e, f]: m is applied first,     *)
(* then c                                                                  *)
Concat(c, m) ==
  <<c[1] * m[1] + c[3] * m[2], c[2] * m[1] + c[4] * m[2],
    c[1] * m[3] + c[3] * m[4], c[2] * m[3] + c[4] * m[4],
    c[1] * m[5] + c[3] * m[6] + c[5], c[2] * m[5] + c[4] * m[6] + c[6]>>

(* the matrix in force at operator i of a list, composed by hand: the      *)
(* product, in order, of the transforms before i that no restore before i  *)
(* has undone.  A restore with a save open undoes what follows the latest  *)
(* open save; a restore with no save open does nothing.                    *)
MatrixAt(ops, i) ==
  LET depth[k \in 1..(Len(ops) + 1)] ==
        IF k = 1 THEN 0
        ELSE IF ops[k - 1].fn = "save" THEN depth[k - 1] + 1
        ELSE IF ops[k - 1].fn = "restore" /\ depth[k - 1] > 0 THEN depth[k - 1] - 1
        ELSE depth[k - 1]
      savedAt(r) == CHOOSE s \in 1..(r - 1) :
                      /\ ops[s].fn = "save" /\ depth[s] = depth[r] - 1
                      /\ \A t \in (s + 1)..(r - 1) :
                           ~(ops[t].fn = "save" /\ depth[t] = depth[r] - 1)
      kept == SelectSeq([j \in 1..(i - 1) |-> j], LAMBDA j :
                /\ ops[j].fn = "transform"
                /\ ~\E r \in (j + 1)..(i - 1) :
                      ops[r].fn = "restore" /\ depth[r] > 0 /\ savedAt(r) < j)
      RECURSIVE Product(_)
      Product(js) == IF js = <<>> THEN <<1, 0, 0, 1, 0, 0>>
                     ELSE Concat(Product(SubSeq(js, 1, Len(js) - 1)),
                                 ops[js[Len(js)]].args)
  IN Product(kept)

(* the painted images of an operator list that are at least 10 units wide  *)
(* and high under the matrix composed by hand                              *)
PaintedAt(ops) ==
  SelectSeq([i \in 1..Len(ops) |-> i], LAMBDA i :
    /\ ops[i].fn = "paintImageXObject"
    /\ MatrixAt(ops, i)[1] >= 10 /\ MatrixAt(ops, i)[4] >= 10)

ScaleThenTranslate(scale) ==
  <<[fn |-> "save", args |-> <<>>], [fn |-> "transform", args |-> scale],
    [fn |-> "transform", args |-> <<1, 0, 0, 1, 0, 700>>],
    [fn |-> "paintImageXObject", args |-> <<>>], [fn |-> "restore", args |-> <<>>]>>

(* C28, as stated: save; transform(scaleX=100); transform(translateY=700); *)
(* paintImage; restore yields one placement of width 100 at y 700.         *)
C28_ScaleXExampleYieldsPlacement ==
  (callArgs # <<>> /\ callResult # <<>> /\ callArgs[1].fn = "extractImagePositions"
     /\ callArgs[1].ops = ScaleThenTranslate(<<100, 0, 0, 1, 0, 0>>)) =>
    /\ Len(callResult[1]) = 1
    /\ callResult[1][1].pdfW = 100
    /\ callResult[1][1].pdfY = 700

(* C28, amended: the extraction yields one placement for every painted     *)
(* image that is at least 10 units wide and high under the matrix composed *)
(* by hand (each transform right-multiplied, save and restore bracketing   *)
(* what they enclose), with that matrix's translation as position and its  *)
(* scale as size.  save; scale(100, 100); translateY(700); paintImage;     *)
(* restore yields one placement of width and height 100 at y 70000; with a *)
(* scale in X only the image is 1 unit high and no placement is made.      *)
C28_PlacementsFollowComposedMatrix ==
  (callArgs # <<>> /\ callResult # <<>> /\ callArgs[1].fn = "extractImagePositions") =>
    LET ops == callArgs[1].ops
        res == callResult[1]
        at == PaintedAt(ops)
    IN /\ Len(res) = Len(at)
       /\ \A k \in 1..Len(at) :
            LET m == MatrixAt(ops, at[k])
            IN res[k].pdfX = m[5] /\ res[k].pdfY = m[6]
               /\ res[k].pdfW = m[1] /\ res[k].pdfH = m[4]
       /\ (ops = ScaleThenTranslate(<<100, 0, 0, 100, 0, 0>>) =>
             /\ Len(res) = 1
             /\ res[1].pdfW = 100 /\ res[1].pdfH = 100 /\ res[1].pdfY = 70000)
       /\ (ops = ScaleThenTranslate(<<100, 0, 0, 1, 0, 0>>) => res = <<>>)

C28_Witness ==
  /\ callArgs # <<>> /\ callResult # <<>>
  /\ callArgs[1].fn = "extractImagePositions"
  /\ callArgs[1].ops = ScaleThenTranslate(<<100, 0, 0, 100, 0, 0>>)
  /\ Len(callResult[1]) = 1
  /\ callResult[1][1].pdfY = 70000

(* the deduplicated runs of each column of a page, each column sorted by   *)
(* top, then left                                                          *)
SortedColumns(mapped, pageWidth) ==
  LET deduped == Dedupe(mapped)
      splitX == detectColumnSplit(deduped, pageWidth)
      InLeft(item) == (2 * item.left + item.width) * 100 < splitX[1]
      Before(a, b) == a.top < b.top \/ (a.top = b.top /\ a.left < b.left)
      Sorted(seq) ==
        LET rank(i) == 1 + Cardinality({j \in 1..Len(seq) :
                            \/ Before(seq[j], seq[i])
                            \/ (~Before(seq[i], seq[j]) /\ j < i)})
        IN [k \in 1..Len(seq) |-> seq[CHOOSE i \in 1..Len(seq) : rank(i) = k]]
  IN IF splitX = <<>> THEN {Sorted(deduped)}
     ELSE {Sorted(SelectSeq(deduped, InLeft)),
           Sorted(SelectSeq(deduped, LAMBDA item : ~InLeft(item)))} \ {<<>>}

(* the runs of a sorted column cut into lines: a line starts at the first  *)
(* run and at every run k for which Starts(column, k) holds                *)
CutAt(column, Starts(_, _)) ==
  LET first == {k \in 1..Len(column) : k = 1 \/ Starts(column, k)}
  IN {SubSeq(column, k,
             CHOOSE e \in k..Len(column) :
               /\ \A j \in (k + 1)..e : j \notin first
               /\ (e = Len(column) \/ e + 1 \in first)) : k \in first}

(* run k of a column is more than 3 px above or below the run before it,   *)
(* or more than max(0.5 x fontSize, 5 px) to the right of its end          *)
FarFromPrevious(column, k) ==
  LET prev == column[k - 1]
      gap == column[k].left - (prev.left + prev.width)
      offset == column[k].top - prev.top
  IN \/ offset > 30 \/ offset < -30
     \/ (2 * gap > prev.fontSize /\ gap > 50)

(* C29: within a column, the runs sorted by (top, left) are cut into lines *)
(* such that a line starts exactly at a run that is more than 3 px from    *)
(* the previous run vertically or more than max(0.5 x fontSize, 5 px) from *)
(* it horizontally; every non-blank deduplicated run is in exactly one     *)
(* line.                                                                   *)
C29_LineStartsFarFromPreviousRun ==
  (callArgs # <<>> /\ callResult # <<>> /\ callArgs[1].fn = "groupIntoLines") =>
    LET lines == callResult[1]
        columns == SortedColumns(callArgs[1].mapped, callArgs[1].pageWidth)
        deduped == Dedupe(callArgs[1].mapped)
        placed == ItemsOfLines(lines)
    IN /\ {lines[k].pdfItems : k \in 1..Len(lines)}
            = UNION {CutAt(column, FarFromPrevious) : column \in columns}
       /\ Len(placed) = Len(deduped)
       /\ {placed[i] : i \in 1..Len(placed)} = {deduped[i] : i \in 1..Len(deduped)}

(* the positions of a line list at which a paragraph of a grouping starts  *)
ParagraphStarts(paragraphs) ==
  LET RECURSIVE Before(_)
      Before(p) == IF p = 1 THEN 0 ELSE Before(p - 1) + Len(paragraphs[p - 1])
  IN {Before(p) + 1 : p \in 1..Len(paragraphs)}

(* the paragraphs are consecutive non-empty groups of the lines, in order, *)
(* and line i continues the paragraph of line i-1 exactly when the         *)
(* vertical gap is below 1.5 x the previous line's height, the left edges  *)
(* differ by less than that, the widths differ by less than half of the    *)
(* larger, the font names are equal and SameSize holds of the font sizes   *)
GroupedBy(lines, paragraphs, SameSize(_, _)) ==
  /\ Flatten(paragraphs) = lines
  /\ \A p \in 1..Len(paragraphs) : paragraphs[p] # <<>>
  /\ \A i \in 2..Len(lines) :
       LET prev == lines[i - 1]
           curr == lines[i]
           leftDiff == IF curr.left < prev.left THEN prev.left - curr.left
                       ELSE curr.left - prev.left
           widthDiff == IF curr.width < prev.width THEN prev.width - curr.width
                        ELSE curr.width - prev.width
       IN (i \notin ParagraphStarts(paragraphs)) <=>
            /\ 2 * (curr.top - (prev.top + prev.height)) < 3 * prev.height
            /\ 2 * leftDiff < 3 * prev.height
            /\ 2 * widthDiff < Max(curr.width, prev.width)
            /\ curr.fontName = prev.fontName
            /\ SameSize(curr.fontSize, prev.fontSize)

EqualSize(a, b) == a = b

WithinTwoPixels(a, b) == a - b < 20 /\ b - a < 20

C31_ZonesFollowActiveBlock ==
  active =>
    \A i \in 1..Len(zones) :
      IF activeBlockIdx = NoIdx
      THEN zones[i].display = "" /\ zones[i].pointerEvents = ""
      ELSE IF zones[i].blockIdx = activeBlockIdx
      THEN zones[i].display = "none"
      ELSE zones[i].pointerEvents = "none"

(* the changes commitTextEdits would collect if it were called now: it     *)
(* deactivates the active block, then reads the overlays and the store     *)
WouldApply ==
  CollectChanges(IF activeBlockIdx >= 0 THEN deactivateBlock(Cur) ELSE Cur)

(* C32: in a session hasTextEditChanges() is true exactly when a commit    *)
(* would apply at least one change; it is true while the store holds a     *)
(* dirty line of a deactivated block.                                      *)
C32_ReportsWhatCommitWouldApply ==
  active =>
    /\ hasTextEditChanges(Cur) <=> (WouldApply # <<>>)
    /\ (\E i \in 1..Len(editedBlocks) : \E k \in 1..Len(editedBlocks[i].val) :
          editedBlocks[i].val[k].dirty) => hasTextEditChanges(Cur)

(* C33: Escape pressed while a block is active deactivates that block,     *)
(* putting its lines in the store when one of them is dirty, and leaves    *)
(* text-edit mode active with its zones; Escape pressed while no block is  *)
(* active ends text-edit mode.                                             *)
C33_EscapeStepsBack ==
  [][PressEscape =>
       IF activeBlockIdx >= 0
       THEN LET linesOfA == BlockLines(Cur, activeBlockIdx)
                dirtyA == \E k \in 1..Len(linesOfA) :
                             LineChanged(divs[linesOfA[k]]) \/ divs[linesOfA[k]].dirtyCls
            IN /\ active'
               /\ activeBlockIdx' = NoIdx
               /\ Len(zones') = Len(zones)
               /\ toolbar' = toolbar
               /\ \A k \in 1..Len(lineEls') : divs'[lineEls'[k]].blockIdx # activeBlockIdx
               /\ dirtyA => /\ MapHas(editedBlocks', activeBlockIdx)
                            /\ Pos(trace', "persist", activeBlockIdx) # {}
       ELSE ~active' /\ editedBlocks' = <<>> /\ zones' = <<>>]_vars

(* a line overlay shows what was extracted for its line: text, inline      *)
(* markup, no override, and the bold and italic it was built with          *)
AsExtracted(div) ==
  /\ TextContent(div.content) = div.original
  /\ normalizeInlineHtml(InnerHTML(div.content)) = div.originalHtml
  /\ div.fontSizeOverride = "" /\ div.colorOverride = ""
  /\ div.fontFamilyOverride = ""
  /\ div.bold = div.initialBold /\ div.italic = div.initialItalic

(* C34: when a block with a record in the store is activated again, typed   *)
(* in until every line equals its original content and formatting, and     *)
(* deactivated, the store holds no dirty line for the block afterwards and *)
(* a commit collects nothing for the block.                                *)
C34_StoreFollowsLastDeactivation ==
  [][\A A \in BlockIndices :
       LET linesOfA == BlockLines(Cur, A)
       IN (/\ active /\ active'
           /\ activeBlockIdx = A
           /\ activeBlockIdx' = NoIdx
           /\ MapHas(editedBlocks, A)
           /\ \E k \in 1..Len(linesOfA) : divs[linesOfA[k]].lastText # <<>>
           /\ \A k \in 1..Len(linesOfA) :
                AsExtracted(divs[linesOfA[k]]) /\ ~divs[linesOfA[k]].dirtyCls) =>
            /\ MapHas(editedBlocks', A) =>
                 \A k \in 1..Len(MapGet(editedBlocks', A)) :
                   ~MapGet(editedBlocks', A)[k].dirty
            /\ \A c \in 1..Len(CollectChanges(Cur)') :
                 \A k \in 1..Len(linesOfA) :
                   CollectChanges(Cur)'[c].pdfY # divs[linesOfA[k]].pdfY]_vars

(* C35: when a block with a record in the store is activated, each line    *)
(* overlay is built with the content saved for its line at the block's     *)
(* last deactivation: text, inline markup and runs, overrides, bold and    *)
(* italic; a line saved with empty content comes back empty.               *)
C35_ReactivationRestoresSaved ==
  [][\A B \in BlockIndices :
       (/\ active /\ active'
        /\ activeBlockIdx # B
        /\ activeBlockIdx' = B
        /\ MapHas(editedBlocks, B)) =>
         LET saved == MapGet(editedBlocks, B)
             built == BlockLines(Cur, B)'
         IN /\ Len(built) = Len(saved)
            /\ \A k \in 1..Len(built) :
                 LET div == divs'[built[k]]
                 IN /\ TextContent(div.content) = saved[k].text
                    /\ InnerHTML(div.content) = saved[k].html
                    /\ extractRunsFromDiv(div) = saved[k].runs
                    /\ parseFloat(div.fontSizeOverride) = saved[k].fontSizeOverride
                    /\ div.colorOverride = saved[k].colorOverride
                    /\ div.fontFamilyOverride = saved[k].fontFamilyOverride
                    /\ div.fontNameOverride = saved[k].fontNameOverride
                    /\ (div.bold = "true") = saved[k].bold
                    /\ (div.italic = "true") = saved[k].italic]_vars

(* C36: after the first input of a focus session in a line, one undo       *)
(* gives the line the content it had before that input.                    *)
C36_UndoRevertsTyping ==
  [][((\E c \in EditContents : TypeInLine(c, MaxEdits))
        /\ ~divs[focusedLine].snapshotTaken) =>
       /\ Len(undoStack') = Len(undoStack) + 1
       /\ performUndo(Cur').divs[focusedLine].content = divs[focusedLine].content]_vars

(* what the claim compares of a line overlay: content, overrides, bold and *)
(* italic                                                                  *)
LineState(div) ==
  [content |-> div.content,
   fontSizeOverride |-> div.fontSizeOverride,
   colorOverride |-> div.colorOverride,
   fontFamilyOverride |-> div.fontFamilyOverride,
   fontNameOverride |-> div.fontNameOverride,
   bold |-> div.bold, italic |-> div.italic,
   fontWeight |-> div.fontWeight, fontStyle |-> div.fontStyle]

(* C37: a redo right after an undo leaves the line of the undone snapshot  *)
(* with the content, overrides, bold and italic it had before the undo and *)
(* both stacks as long as they were; an undo with an empty undo stack and  *)
(* a redo with an empty redo stack change nothing.                         *)
C37_RedoRevertsUndo ==
  /\ [][Undo =>
          LET d == undoStack[Len(undoStack)].div
              after == performRedo(Cur')
          IN /\ LineState(after.divs[d]) = LineState(divs[d])
             /\ Len(after.undoStack) = Len(undoStack)
             /\ Len(after.redoStack) = Len(redoStack)
             /\ Len(undoStack') = Len(undoStack) - 1
             /\ Len(redoStack') = Len(redoStack) + 1]_vars
  /\ [](undoStack = <<>> => performUndo(Cur) = Cur)
  /\ [](redoStack = <<>> => performRedo(Cur) = Cur)

(* a redo has followed an undo of a bold toggle or of a colour choice: the *)
(* line is changed again and the snapshot on the undo stack is not         *)
C37_Witness ==
  /\ trace = <<[ev |-> "redo"]>>
  /\ undoStack # <<>>
  /\ LET snap == undoStack[Len(undoStack)]
     IN \/ snap.bold # divs[snap.div].bold
        \/ snap.colorOverride # divs[snap.div].colorOverride

(* C38: once every enterTextEditMode call has completed, the container of  *)
(* a session holds one zone per paragraph of the session, each of them     *)
(* tracked in _blockZones, however the calls overlapped.                   *)
C38_OneZonePerParagraph ==
  (active /\ \A p \in Pages : pendingText[p] = 0) =>
    /\ Len(zones) = Len(paragraphData)
    /\ \A i \in 1..Len(zones) : zones[i].tracked
    /\ \A b \in 0..(Len(paragraphData) - 1) :
         Cardinality({i \in 1..Len(zones) : zones[i].blockIdx = b}) = 1

(* C39: a text-edit session is never active for a page other than the one  *)
(* displayed: the page its zones and page number belong to is the current  *)
(* page, also when the page was changed while enterTextEditMode waited.    *)
C39_SessionOnDisplayedPage == active => sessionPage = curPage

(* C40: while image-edit mode shows its toolbar, a click on Cancel leaves   *)
(* image-edit mode, and a click on Apply runs commitImageEdits and not the  *)
(* text-edit commit.                                                        *)
C40_ImageToolbarButtons ==
  [][(imageActive /\ toolbar = "image") =>
       /\ ClickCancel => ~imageActive'
       /\ ClickApply => /\ trace' # <<>>
                        /\ trace'[1].ev = "commitImage"]_vars

====
